---- MODULE Spec2Model ----
(***************************************************************************)
(* The interactive key editor of g10/keyedit.c as a state machine.         *)
(*                                                                         *)
(* A state is the state of keyedit_menu at its "Command> " prompt: the two *)
(* keyblocks, the modified flags, the view toggle, the keyring store and   *)
(* the process-wide "next passphrase" slot.  One action is one pass of the *)
(* main loop: one command, run to the point where the loop prompts again   *)
(* (or leaves).  The operator's answers and the results of the external    *)
(* collaborators (signing, verification, keyring I/O, passphrase dialogs)  *)
(* are the inputs of the actions.                                          *)
(***************************************************************************)
EXTENDS Integers, Sequences, FiniteSets, TLC

----------------------------------------------------------------------------
(* Bounds of the model *)

\* adduid is offered while the public block holds fewer uids than this
MaxUids == 2
\* addkey is offered while the public block holds fewer subkeys than this
MaxSubkeys == 1
\* longest session, in commands, of the specification that runs every command
MaxCmds == 4

----------------------------------------------------------------------------
(* Packets and nodes *)

\* signature classes
CLASS_CERT == 16
CLASS_SELF == 19

Names == {"Alice", "Bob"}
PrimaryKeyId == "P"
SignerKeyIds == {"P", "K"}
SubkeyIds == <<"S1", "S2", "S3", "S4">>
Passphrases == {"pw1", "pw2"}
Salts == {"s1", "s2"}

\* protection descriptor of a secret key.  dek is the passphrase the stored
\* secret material is encrypted under ("" while it is in the clear)
NoProtect == [is_protected |-> FALSE, algo |-> "", s2k |-> "", dek |-> ""]
Protected(pw, salt) == [is_protected |-> TRUE, algo |-> "cipher", s2k |-> salt, dek |-> pw]

Node(type, name, keyid, class, prot, algo) ==
    [pkttype |-> type, flag |-> {}, name |-> name, keyid |-> keyid,
     sig_class |-> class, protect |-> prot, pubkey_algo |-> algo]

PublicKey(keyid) == Node("PUBLIC_KEY", "", keyid, 0, NoProtect, "ok")
PublicSubkey(keyid) == Node("PUBLIC_SUBKEY", "", keyid, 0, NoProtect, "ok")
SecretKey(keyid, prot, algo) == Node("SECRET_KEY", "", keyid, 0, prot, algo)
SecretSubkey(keyid, prot) == Node("SECRET_SUBKEY", "", keyid, 0, prot, "ok")
UserId(name) == Node("USER_ID", name, "", 0, NoProtect, "ok")
Signature(keyid, class) == Node("SIGNATURE", "", keyid, class, NoProtect, "ok")
\* a subkey binding signature (class 0x18) by the primary
BindingSig(keyid) == Signature(keyid, 24)

IsSubkey(n) == n.pkttype \in {"PUBLIC_SUBKEY", "SECRET_SUBKEY"}
IsSecret(n) == n.pkttype \in {"SECRET_KEY", "SECRET_SUBKEY"}

\* (sig_class & ~3) == 0x10
IsCertClass(c) == c - (c % 4) = CLASS_CERT

\* the packet of a node: the node without its flag word
Pkt(n) == [n EXCEPT !.flag = {}]
Pkts(kb) == [i \in 1..Len(kb) |-> Pkt(kb[i])]

----------------------------------------------------------------------------
(* Keyblock node store (kbnode.c) *)

\* insert node directly after position i
insert_kbnode(kb, i, node) ==
    SubSeq(kb, 1, i) \o <<node>> \o SubSeq(kb, i + 1, Len(kb))

add_kbnode(kb, node) == Append(kb, node)

\* delete_kbnode marks a node; the marks of one operation are the set del
delete_kbnode(del, i) == del \cup {i}

RECURSIVE Compact(_, _, _)
Compact(kb, del, i) ==
    IF i > Len(kb) THEN <<>>
    ELSE IF i \in del THEN Compact(kb, del, i + 1)
    ELSE <<kb[i]>> \o Compact(kb, del, i + 1)

\* commit_kbnode removes the marked nodes, keeping the others in order
commit_kbnode(kb, del) == Compact(kb, del, 1)

----------------------------------------------------------------------------
(* Counters *)

count_uids_with_flag(kb, f) ==
    Cardinality({i \in 1..Len(kb) : kb[i].pkttype = "USER_ID" /\ f \in kb[i].flag})

count_keys_with_flag(kb, f) ==
    Cardinality({i \in 1..Len(kb) : IsSubkey(kb[i]) /\ f \in kb[i].flag})

count_uids(kb) ==
    Cardinality({i \in 1..Len(kb) : kb[i].pkttype = "USER_ID"})

count_subkeys(kb) ==
    Cardinality({i \in 1..Len(kb) : IsSubkey(kb[i])})

count_selected_uids(kb) == count_uids_with_flag(kb, "SELUID")

count_selected_keys(kb) == count_keys_with_flag(kb, "SELKEY")

----------------------------------------------------------------------------
(* Selection *)

\* position of the n-th node satisfying the given kind test, 0 when there is none
UidPos(kb, n) ==
    LET S == {i \in 1..Len(kb) : kb[i].pkttype = "USER_ID"
                /\ Cardinality({j \in 1..i : kb[j].pkttype = "USER_ID"}) = n}
    IN IF S = {} THEN 0 ELSE CHOOSE i \in S : TRUE

KeyPos(kb, n) ==
    LET S == {i \in 1..Len(kb) : IsSubkey(kb[i])
                /\ Cardinality({j \in 1..i : IsSubkey(kb[j])}) = n}
    IN IF S = {} THEN 0 ELSE CHOOSE i \in S : TRUE

\* the ordinal (1-based, in keyblock order) of the uid at position i
UidOrdinal(kb, i) == Cardinality({j \in 1..i : kb[j].pkttype = "USER_ID"})

\* Toggle setting the flag, never clearing it
Toggle_set_only(flags, f) == flags \cup {f}

Toggle(flags, f) == IF f \in flags THEN flags \ {f} ELSE flags \cup {f}

menu_select_uid(kb, index) ==
    IF index # 0
    THEN IF UidPos(kb, index) = 0
         THEN [kb |-> kb, ret |-> 0, msg |-> "No user id with index"]
         ELSE [kb |-> [kb EXCEPT ![UidPos(kb, index)].flag = Toggle(@, "SELUID")],
               ret |-> 1, msg |-> ""]
    ELSE [kb |-> [i \in 1..Len(kb) |->
                    IF kb[i].pkttype = "USER_ID"
                    THEN [kb[i] EXCEPT !.flag = @ \ {"SELUID"}] ELSE kb[i]],
          ret |-> 1, msg |-> ""]

\* menu_select_key clearing the selection on an index that is not found
menu_select_key_reset_on_miss(kb, index) ==
    IF index # 0 /\ KeyPos(kb, index) # 0
    THEN [kb |-> [kb EXCEPT ![KeyPos(kb, index)].flag = Toggle(@, "SELKEY")],
          ret |-> 1, msg |-> ""]
    ELSE [kb |-> [i \in 1..Len(kb) |->
                    IF IsSubkey(kb[i])
                    THEN [kb[i] EXCEPT !.flag = @ \ {"SELKEY"}] ELSE kb[i]],
          ret |-> IF index = 0 THEN 1 ELSE 0,
          msg |-> IF index = 0 THEN "" ELSE "No secondary key with index"]

menu_select_key(kb, index) ==
    IF index # 0
    THEN IF KeyPos(kb, index) = 0
         THEN [kb |-> kb, ret |-> 0, msg |-> "No secondary key with index"]
         ELSE [kb |-> [kb EXCEPT ![KeyPos(kb, index)].flag = Toggle(@, "SELKEY")],
               ret |-> 1, msg |-> ""]
    ELSE [kb |-> [i \in 1..Len(kb) |->
                    IF IsSubkey(kb[i])
                    THEN [kb[i] EXCEPT !.flag = @ \ {"SELKEY"}] ELSE kb[i]],
          ret |-> 1, msg |-> ""]

----------------------------------------------------------------------------
(* adduid, deluid, delkey *)

\* the node before the first subkey of the given kind; 0 (NULL) without subkey
WhereBeforeSubkey(kb, subtype) ==
    LET S == {i \in 1..Len(kb) : kb[i].pkttype = subtype}
    IN IF S = {} THEN 0 ELSE (CHOOSE i \in S : \A j \in S : i <= j) - 1

\* PutUid appending the two nodes wherever the subkeys are
PutUid_append(kb, where, uid, sig) == add_kbnode(add_kbnode(kb, uid), sig)

\* put the uid node and, directly after it, its signature node after position
\* where, or append both when where is NULL
PutUid(kb, where, uid, sig) ==
    IF where # 0
    THEN insert_kbnode(insert_kbnode(kb, where, uid), where + 1, sig)
    ELSE add_kbnode(add_kbnode(kb, uid), sig)

\* name: what generate_user_id returns ("" when the operator gives none);
\* rc: the result of make_keysig_packet
menu_adduid(pub_keyblock, sec_keyblock, name, rc) ==
    LET pub_where == WhereBeforeSubkey(pub_keyblock, "PUBLIC_SUBKEY")
        sec_where == WhereBeforeSubkey(sec_keyblock, "SECRET_SUBKEY")
        sk == sec_keyblock[CHOOSE i \in 1..Len(sec_keyblock) :
                                sec_keyblock[i].pkttype = "SECRET_KEY"]
        sig == Signature(sk.keyid, CLASS_SELF)
    IN IF name = "" \/ rc # 0
       THEN [pub |-> pub_keyblock, sec |-> sec_keyblock, ret |-> 0, pub_where |-> pub_where]
       ELSE [pub |-> PutUid(pub_keyblock, pub_where, UserId(name), sig),
             sec |-> PutUid(sec_keyblock, sec_where, UserId(name), sig),
             ret |-> 1, pub_where |-> pub_where]

\* deluid_sec deleting also the uids selected in the secret keyblock
RECURSIVE deluid_sec_selected_too(_, _, _, _, _)
deluid_sec_selected_too(sec, uid, i, s_selected, del) ==
    IF i > Len(sec) THEN del
    ELSE IF sec[i].pkttype = "USER_ID"
    THEN LET s == (uid.name = sec[i].name) \/ "SELUID" \in sec[i].flag
         IN deluid_sec_selected_too(sec, uid, i + 1, s,
                                    IF s THEN delete_kbnode(del, i) ELSE del)
    ELSE IF s_selected /\ sec[i].pkttype = "SIGNATURE"
    THEN deluid_sec_selected_too(sec, uid, i + 1, s_selected, delete_kbnode(del, i))
    ELSE IF sec[i].pkttype = "SECRET_SUBKEY"
    THEN deluid_sec_selected_too(sec, uid, i + 1, FALSE, del)
    ELSE deluid_sec_selected_too(sec, uid, i + 1, s_selected, del)

\* the inner loop of menu_deluid: the secret nodes deleted for one public uid
RECURSIVE deluid_sec(_, _, _, _, _)
deluid_sec(sec, uid, i, s_selected, del) ==
    IF i > Len(sec) THEN del
    ELSE IF sec[i].pkttype = "USER_ID"
    THEN LET s == (uid.name = sec[i].name)
         IN deluid_sec(sec, uid, i + 1, s, IF s THEN delete_kbnode(del, i) ELSE del)
    ELSE IF s_selected /\ sec[i].pkttype = "SIGNATURE"
    THEN deluid_sec(sec, uid, i + 1, s_selected, delete_kbnode(del, i))
    ELSE IF sec[i].pkttype = "SECRET_SUBKEY"
    THEN deluid_sec(sec, uid, i + 1, FALSE, del)
    ELSE deluid_sec(sec, uid, i + 1, s_selected, del)

\* deluid_pub going on past a subkey without resetting selected
RECURSIVE deluid_pub_past_subkey(_, _, _, _, _)
deluid_pub_past_subkey(pub, sec, i, selected, del) ==
    IF i > Len(pub) THEN del
    ELSE IF pub[i].pkttype = "USER_ID"
    THEN LET sel == "SELUID" \in pub[i].flag
         IN deluid_pub_past_subkey(pub, sec, i + 1, sel,
                IF sel
                THEN [pub |-> delete_kbnode(del.pub, i),
                      sec |-> IF sec # <<>>
                              THEN deluid_sec(sec, pub[i], 1, FALSE, del.sec)
                              ELSE del.sec]
                ELSE del)
    ELSE IF selected /\ pub[i].pkttype = "SIGNATURE"
    THEN deluid_pub_past_subkey(pub, sec, i + 1, selected,
                    [del EXCEPT !.pub = delete_kbnode(@, i)])
    ELSE deluid_pub_past_subkey(pub, sec, i + 1, selected, del)

\* the outer loop of menu_deluid: the nodes deleted in both blocks
RECURSIVE deluid_pub(_, _, _, _, _)
deluid_pub(pub, sec, i, selected, del) ==
    IF i > Len(pub) THEN del
    ELSE IF pub[i].pkttype = "USER_ID"
    THEN LET sel == "SELUID" \in pub[i].flag
         IN deluid_pub(pub, sec, i + 1, sel,
                IF sel
                THEN [pub |-> delete_kbnode(del.pub, i),
                      sec |-> IF sec # <<>>
                              THEN deluid_sec(sec, pub[i], 1, FALSE, del.sec)
                              ELSE del.sec]
                ELSE del)
    ELSE IF selected /\ pub[i].pkttype = "SIGNATURE"
    THEN deluid_pub(pub, sec, i + 1, selected,
                    [del EXCEPT !.pub = delete_kbnode(@, i)])
    ELSE IF pub[i].pkttype = "PUBLIC_SUBKEY"
    THEN deluid_pub(pub, sec, i + 1, FALSE, del)
    ELSE deluid_pub(pub, sec, i + 1, selected, del)

menu_deluid(pub_keyblock, sec_keyblock) ==
    LET del == deluid_pub(pub_keyblock, sec_keyblock, 1, FALSE, [pub |-> {}, sec |-> {}])
    IN [pub |-> commit_kbnode(pub_keyblock, del.pub),
        sec |-> IF sec_keyblock # <<>> THEN commit_kbnode(sec_keyblock, del.sec)
                ELSE sec_keyblock]

\* the inner loop of menu_delkey
RECURSIVE delkey_sec(_, _, _, _, _)
delkey_sec(sec, ki, i, s_selected, del) ==
    IF i > Len(sec) THEN del
    ELSE IF sec[i].pkttype = "SECRET_SUBKEY"
    THEN LET s == (ki = sec[i].keyid)
         IN delkey_sec(sec, ki, i + 1, s, IF s THEN delete_kbnode(del, i) ELSE del)
    ELSE IF s_selected /\ sec[i].pkttype = "SIGNATURE"
    THEN delkey_sec(sec, ki, i + 1, s_selected, delete_kbnode(del, i))
    ELSE delkey_sec(sec, ki, i + 1, FALSE, del)

\* the outer loop of menu_delkey
RECURSIVE delkey_pub(_, _, _, _, _)
delkey_pub(pub, sec, i, selected, del) ==
    IF i > Len(pub) THEN del
    ELSE IF pub[i].pkttype = "PUBLIC_SUBKEY"
    THEN LET sel == "SELKEY" \in pub[i].flag
         IN delkey_pub(pub, sec, i + 1, sel,
                IF sel
                THEN [pub |-> delete_kbnode(del.pub, i),
                      sec |-> IF sec # <<>>
                              THEN delkey_sec(sec, pub[i].keyid, 1, FALSE, del.sec)
                              ELSE del.sec]
                ELSE del)
    ELSE IF selected /\ pub[i].pkttype = "SIGNATURE"
    THEN delkey_pub(pub, sec, i + 1, selected,
                    [del EXCEPT !.pub = delete_kbnode(@, i)])
    ELSE delkey_pub(pub, sec, i + 1, FALSE, del)

menu_delkey(pub_keyblock, sec_keyblock) ==
    LET del == delkey_pub(pub_keyblock, sec_keyblock, 1, FALSE, [pub |-> {}, sec |-> {}])
    IN [pub |-> commit_kbnode(pub_keyblock, del.pub),
        sec |-> IF sec_keyblock # <<>> THEN commit_kbnode(sec_keyblock, del.sec)
                ELSE sec_keyblock]

\* generate_subkeypair (keygen.c): a fresh subkey and its binding signature
\* are appended to both blocks; the secret subkey is left unprotected
generate_subkeypair(pub_keyblock, sec_keyblock, keyid, rc) ==
    IF rc # 0
    THEN [pub |-> pub_keyblock, sec |-> sec_keyblock, ret |-> 0]
    ELSE [pub |-> add_kbnode(add_kbnode(pub_keyblock, PublicSubkey(keyid)),
                             BindingSig(PrimaryKeyId)),
          sec |-> add_kbnode(add_kbnode(sec_keyblock, SecretSubkey(keyid, NoProtect)),
                             BindingSig(PrimaryKeyId)),
          ret |-> 1]

----------------------------------------------------------------------------
(* check_all_keysigs *)

Results == {"ok", "bad_sign", "no_pubkey", "other"}

PrimaryOf(kb) ==
    LET S == {i \in 1..Len(kb) : kb[i].pkttype \in {"PUBLIC_KEY", "SECRET_KEY"}}
    IN IF S = {} THEN 0 ELSE CHOOSE i \in S : \A j \in S : i <= j

\* check_key_signature (sig-check.c): res is the verification result of each
\* signature node; a signature is a self-signature when made by the primary
check_key_signature(kb, i, res) ==
    [rc |-> res[i], selfsig |-> kb[i].keyid = kb[PrimaryOf(kb)].keyid]

\* the positions check_all_keysigs may verify
CheckablePositions(kb) ==
    {i \in 1..Len(kb) : kb[i].pkttype = "SIGNATURE" /\ IsCertClass(kb[i].sig_class)}

\* SetSigFlag or-ing the flag in where the code assigns it
SetSigFlag_or(flags, rc) ==
    CASE rc = "ok" -> flags \ {"BADSIG", "NOKEY", "SIGERR"}
      [] rc = "bad_sign" -> flags \cup {"BADSIG"}
      [] rc = "no_pubkey" -> flags \cup {"NOKEY"}
      [] OTHER -> flags \cup {"SIGERR"}

\* the body of the switch on the verification result
SetSigFlag(flags, rc) ==
    CASE rc = "ok" -> flags \ {"BADSIG", "NOKEY", "SIGERR"}
      [] rc = "bad_sign" -> {"BADSIG"}
      [] rc = "no_pubkey" -> {"NOKEY"}
      [] OTHER -> {"SIGERR"}

RECURSIVE check_walk(_, _, _, _)
check_walk(c, i, only_selected, res) ==
    IF i > Len(c.kb) THEN c
    ELSE LET node == c.kb[i] IN
    IF node.pkttype = "USER_ID"
    THEN LET selected == IF only_selected THEN "SELUID" \in node.flag ELSE c.selected
         IN IF selected
            THEN check_walk([c EXCEPT !.selected = selected,
                                !.mis_selfsig = IF c.anyuid /\ ~c.has_selfsig
                                                THEN @ + 1 ELSE @,
                                !.has_selfsig = FALSE,
                                !.anyuid = TRUE,
                                !.visited = @ \cup {i}],
                            i + 1, only_selected, res)
            ELSE check_walk([c EXCEPT !.selected = selected], i + 1, only_selected, res)
    ELSE IF c.selected /\ node.pkttype = "SIGNATURE" /\ IsCertClass(node.sig_class)
    THEN LET r == check_key_signature(c.kb, i, res)
         IN check_walk([c EXCEPT !.kb[i].flag = SetSigFlag(@, r.rc),
                            !.inv_sigs = IF r.rc = "bad_sign" THEN @ + 1 ELSE @,
                            !.no_key = IF r.rc = "no_pubkey" THEN @ + 1 ELSE @,
                            !.oth_err = IF r.rc \notin {"ok", "bad_sign", "no_pubkey"}
                                        THEN @ + 1 ELSE @,
                            !.has_selfsig = IF r.rc = "ok" /\ r.selfsig THEN TRUE ELSE @,
                            !.checked = @ \cup {i}],
                        i + 1, only_selected, res)
    ELSE check_walk(c, i + 1, only_selected, res)

\* check_all_keysigs visiting every uid whether or not uids are selected
check_all_keysigs_every_uid(keyblock, only_selected, res) ==
    LET c == check_walk([kb |-> keyblock, selected |-> TRUE,
                         has_selfsig |-> FALSE, mis_selfsig |-> 0, anyuid |-> FALSE,
                         inv_sigs |-> 0, no_key |-> 0, oth_err |-> 0,
                         visited |-> {}, checked |-> {}],
                        1, FALSE, res)
        mis == IF ~c.has_selfsig THEN c.mis_selfsig + 1 ELSE c.mis_selfsig
    IN [kb |-> c.kb, inv_sigs |-> c.inv_sigs, no_key |-> c.no_key,
        oth_err |-> c.oth_err, mis_selfsig |-> mis,
        ret |-> (c.inv_sigs # 0 \/ c.no_key # 0 \/ c.oth_err # 0 \/ mis # 0),
        visited |-> c.visited, checked |-> c.checked]

check_all_keysigs(keyblock, only_selected, res) ==
    LET c == check_walk([kb |-> keyblock, selected |-> ~only_selected,
                         has_selfsig |-> FALSE, mis_selfsig |-> 0, anyuid |-> FALSE,
                         inv_sigs |-> 0, no_key |-> 0, oth_err |-> 0,
                         visited |-> {}, checked |-> {}],
                        1, only_selected, res)
        mis == IF ~c.has_selfsig THEN c.mis_selfsig + 1 ELSE c.mis_selfsig
    IN [kb |-> c.kb, inv_sigs |-> c.inv_sigs, no_key |-> c.no_key,
        oth_err |-> c.oth_err, mis_selfsig |-> mis,
        ret |-> (c.inv_sigs # 0 \/ c.no_key # 0 \/ c.oth_err # 0 \/ mis # 0),
        visited |-> c.visited, checked |-> c.checked]

----------------------------------------------------------------------------
(* sign_uids *)

\* MarkA assigning the flag word where the code ors MARK_A in
MarkA_assign(kb, select_all) ==
    [i \in 1..Len(kb) |->
        [kb[i] EXCEPT !.flag = IF select_all \/ "SELUID" \in @
                               THEN {"MARK_A"} ELSE @ \ {"MARK_A"}]]

\* MarkA marking every node whether or not uids are selected
MarkA_every_node(kb, select_all) ==
    [i \in 1..Len(kb) |-> [kb[i] EXCEPT !.flag = @ \cup {"MARK_A"}]]

\* set mark A for all selected user ids (the loop runs over every node)
MarkA(kb, select_all) ==
    [i \in 1..Len(kb) |->
        [kb[i] EXCEPT !.flag = IF select_all \/ "SELUID" \in @
                               THEN @ \cup {"MARK_A"} ELSE @ \ {"MARK_A"}]]

\* UnmarkSigned finding no uid signed already
UnmarkSigned_never(kb, i, uidnode, sk_keyid) == kb

\* reset mark for uids which are already signed
RECURSIVE UnmarkSigned(_, _, _, _)
UnmarkSigned(kb, i, uidnode, sk_keyid) ==
    IF i > Len(kb) THEN kb
    ELSE IF kb[i].pkttype = "USER_ID"
    THEN UnmarkSigned(kb, i + 1, IF "MARK_A" \in kb[i].flag THEN i ELSE 0, sk_keyid)
    ELSE IF uidnode # 0 /\ kb[i].pkttype = "SIGNATURE" /\ IsCertClass(kb[i].sig_class)
            /\ kb[i].keyid = sk_keyid
    THEN UnmarkSigned([kb EXCEPT ![uidnode].flag = @ \ {"MARK_A"}],
                      i + 1, uidnode, sk_keyid)
    ELSE UnmarkSigned(kb, i + 1, uidnode, sk_keyid)

FirstMarkedUid(kb) ==
    LET S == {i \in 1..Len(kb) : kb[i].pkttype = "USER_ID" /\ "MARK_A" \in kb[i].flag}
    IN IF S = {} THEN 0 ELSE CHOOSE i \in S : \A j \in S : i <= j

\* Reloop clearing the mark of every uid on the first scan
RECURSIVE Reloop_clear_all(_, _, _)
Reloop_clear_all(st, sk_keyid, failAt) ==
    LET i == FirstMarkedUid(st.kb) IN
    IF i = 0 THEN [st EXCEPT !.log = Append(@, "signed")]
    ELSE LET cleared == [j \in 1..Len(st.kb) |->
                            IF st.kb[j].pkttype = "USER_ID"
                            THEN [st.kb[j] EXCEPT !.flag = @ \ {"MARK_A"}]
                            ELSE st.kb[j]]
         IN IF st.calls + 1 = failAt
            THEN [st EXCEPT !.kb = cleared, !.calls = @ + 1, !.rc = 1,
                            !.log = Append(@, "failed")]
            ELSE Reloop_clear_all([st EXCEPT
                            !.kb = insert_kbnode(cleared, i, Signature(sk_keyid, CLASS_CERT)),
                            !.calls = @ + 1, !.modified = TRUE, !.upd_trust = TRUE],
                        sk_keyid, failAt)

\* the reloop scan: failAt is the ordinal of the make_keysig_packet call that
\* fails (0: none does)
RECURSIVE Reloop(_, _, _)
Reloop(st, sk_keyid, failAt) ==
    LET i == FirstMarkedUid(st.kb) IN
    IF i = 0 THEN [st EXCEPT !.log = Append(@, "signed")]
    ELSE LET cleared == [st.kb EXCEPT ![i].flag = @ \ {"MARK_A"}]
         IN IF st.calls + 1 = failAt
            THEN [st EXCEPT !.kb = cleared, !.calls = @ + 1, !.rc = 1,
                            !.log = Append(@, "failed")]
            ELSE Reloop([st EXCEPT
                            !.kb = insert_kbnode(cleared, i, Signature(sk_keyid, CLASS_CERT)),
                            !.calls = @ + 1, !.modified = TRUE, !.upd_trust = TRUE],
                        sk_keyid, failAt)

\* one pass of the loop over all signators
SignOne(st, sk_keyid, answer, select_all, failAt) ==
    LET marked == UnmarkSigned(MarkA(st.kb, select_all), 1, 0, sk_keyid) IN
    IF count_uids_with_flag(marked, "MARK_A") = 0
    THEN [st EXCEPT !.kb = marked, !.log = Append(@, "nothing")]
    ELSE IF ~answer
    THEN [st EXCEPT !.kb = marked, !.log = Append(@, "declined")]
    ELSE Reloop([st EXCEPT !.kb = marked], sk_keyid, failAt)

RECURSIVE SignLoop(_, _, _, _, _, _)
SignLoop(st, sk_list, k, answers, select_all, failAt) ==
    IF k > Len(sk_list) \/ st.rc # 0 THEN st
    ELSE SignLoop(SignOne(st, sk_list[k], answers[k], select_all, failAt),
                  sk_list, k + 1, answers, select_all, failAt)

\* list_rc: the result of build_sk_list; sk_list: the signers' key ids;
\* answers: the answer to "Really sign?" for each signer
sign_uids(keyblock, list_rc, sk_list, answers, failAt, ret_modified) ==
    LET select_all == count_selected_uids(keyblock) = 0
        st0 == [kb |-> keyblock, modified |-> ret_modified, upd_trust |-> FALSE,
                rc |-> list_rc, calls |-> 0, log |-> <<>>]
        st == IF list_rc # 0 THEN st0
              ELSE SignLoop(st0, sk_list, 1, answers, select_all, failAt)
    IN [kb |-> st.kb, modified |-> st.modified, rc |-> st.rc, log |-> st.log,
        calls |-> st.calls,
        trust_cleared |-> (st.rc = 0 /\ st.upd_trust)]

----------------------------------------------------------------------------
(* change_passphrase *)

\* is_secret_key_protected (seckey-cert.c)
is_secret_key_protected(sk) ==
    IF sk.pubkey_algo # "ok" THEN -1
    ELSE IF sk.protect.is_protected THEN 1 ELSE 0

\* check_secret_key (seckey-cert.c): the passphrase in the next-passphrase
\* slot is tried first, then the operator is asked; try is the set of
\* passphrases the operator is able to type.  On success the secret material
\* is decrypted in place.
check_secret_key(sk, slot, try) ==
    IF ~sk.protect.is_protected THEN [sk |-> sk, rc |-> 0, used |-> ""]
    ELSE IF (slot # "" /\ slot = sk.protect.dek) \/ sk.protect.dek \in try
    THEN [sk |-> [sk EXCEPT !.protect.is_protected = FALSE, !.protect.dek = ""],
          rc |-> 0, used |-> sk.protect.dek]
    ELSE [sk |-> sk, rc |-> 1, used |-> ""]

\* protect_secret_key (seckey-cert.c): encrypts the secret material under dek
protect_secret_key(sk, dek, rc) ==
    IF rc # 0 THEN sk
    ELSE [sk EXCEPT !.protect.is_protected = TRUE, !.protect.dek = dek.pw]

\* unprotect all subkeys (use the supplied passphrase or ask)
\* UnlockSubkeys going on without unlocking any subkey
UnlockSubkeys_skip(st, i, passphrase, try) == st

RECURSIVE UnlockSubkeys(_, _, _, _)
UnlockSubkeys(st, i, passphrase, try) ==
    IF i > Len(st.kb) \/ st.rc # 0 THEN st
    ELSE IF st.kb[i].pkttype = "SECRET_SUBKEY"
    THEN LET r == check_secret_key(st.kb[i], passphrase, try)
         IN UnlockSubkeys([st EXCEPT !.kb[i] = r.sk, !.rc = r.rc, !.slot = passphrase],
                          i + 1, passphrase, try)
    ELSE UnlockSubkeys(st, i + 1, passphrase, try)

\* ProtectSubkeys leaving the subkeys as they are
ProtectSubkeys_skip(st, i, dek, failAt) == st

\* protect every subkey with the new key; failAt is the ordinal of the
\* protect_secret_key call that fails (0: none does)
RECURSIVE ProtectSubkeys(_, _, _, _)
ProtectSubkeys(st, i, dek, failAt) ==
    IF i > Len(st.kb) \/ st.rc # 0 THEN st
    ELSE IF st.kb[i].pkttype = "SECRET_SUBKEY"
    THEN LET rc == IF st.calls + 1 = failAt THEN 1 ELSE 0
             subsk == [st.kb[i] EXCEPT !.protect.algo = dek.algo, !.protect.s2k = dek.s2k]
         IN ProtectSubkeys([st EXCEPT !.kb[i] = protect_secret_key(subsk, dek, rc),
                                !.rc = rc, !.calls = @ + 1],
                           i + 1, dek, failAt)
    ELSE ProtectSubkeys(st, i + 1, dek, failAt)

\* passphrase_to_dek (passphrase.c): the key derived from the passphrase the
\* operator entered twice, under the string-to-key parameters it filled in
passphrase_to_dek(pw, salt) ==
    [pw |-> pw, keylen |-> IF pw = "" THEN 0 ELSE 16, algo |-> "cipher", s2k |-> salt]

\* try: the passphrases the operator can type when asked for the current one;
\* newpw, salt: the new passphrase and the salt of its string-to-key;
\* confirm: the answer to "Do you really want to do this?";
\* failAt: the protect_secret_key call that fails
change_passphrase_body(keyblock, try, newpw, salt, confirm, failAt) ==
    LET p == IF \E i \in 1..Len(keyblock) : keyblock[i].pkttype = "SECRET_KEY"
             THEN CHOOSE i \in 1..Len(keyblock) :
                    /\ keyblock[i].pkttype = "SECRET_KEY"
                    /\ \A j \in 1..(i - 1) : keyblock[j].pkttype # "SECRET_KEY"
             ELSE 0
    IN IF p = 0
       THEN [kb |-> keyblock, ret |-> FALSE, rc |-> 0, changed |-> 0, slot |-> "",
             path |-> "no secret key"]
       ELSE
       LET sk == keyblock[p]
           prot == is_secret_key_protected(sk)
           r == IF prot = -1 THEN [sk |-> sk, rc |-> 1, used |-> ""]
                ELSE IF prot = 0 THEN [sk |-> sk, rc |-> 0, used |-> ""]
                ELSE check_secret_key(sk, "", try)
           passphrase == r.used
           unl == UnlockSubkeys([kb |-> [keyblock EXCEPT ![p] = r.sk], rc |-> r.rc,
                                 slot |-> "", calls |-> 0],
                                1, passphrase, try)
           dek == passphrase_to_dek(newpw, salt)
       IN IF unl.rc # 0
          THEN [kb |-> unl.kb, ret |-> FALSE, rc |-> unl.rc, changed |-> 0,
                slot |-> unl.slot,
                path |-> IF prot = -1 THEN "unsupported" ELSE "unlock failed"]
          ELSE IF dek.keylen = 0
          THEN [kb |-> unl.kb, ret |-> confirm, rc |-> 0,
                changed |-> IF confirm THEN 1 ELSE 0, slot |-> "",
                path |-> IF confirm THEN "empty" ELSE "empty declined"]
          ELSE
          LET rc1 == IF failAt = 1 THEN 1 ELSE 0
              sk1 == [unl.kb[p] EXCEPT !.protect.algo = dek.algo, !.protect.s2k = dek.s2k]
              pr == ProtectSubkeys([kb |-> [unl.kb EXCEPT ![p] = protect_secret_key(sk1, dek, rc1)],
                                    rc |-> rc1, slot |-> "", calls |-> 1],
                                   1, dek, failAt)
          IN [kb |-> pr.kb, ret |-> (pr.rc = 0), rc |-> pr.rc,
              changed |-> IF pr.rc = 0 THEN 1 ELSE 0, slot |-> "",
              path |-> IF pr.rc = 0 THEN "protected" ELSE "protect failed"]

\* change_passphrase_leave forgetting to empty the next-passphrase slot
change_passphrase_leave_keep(r) == r

\* the leave label: set_next_passphrase(NULL)
change_passphrase_leave(r) == [r EXCEPT !.slot = ""]

\* slot: the next-passphrase slot, which stays set until set_next_passphrase
\* is called again
change_passphrase(keyblock, try, newpw, salt, confirm, failAt) ==
    change_passphrase_leave(
        change_passphrase_body(keyblock, try, newpw, salt, confirm, failAt))

----------------------------------------------------------------------------
(* The session: keyedit_menu *)

VARIABLES
    keyblock,         \* the public keyblock
    sec_keyblock,     \* the secret keyblock, <<>> when none is loaded (NULL)
    modified,         \* the public block differs from the keyring
    sec_modified,     \* the secret block differs from the keyring
    toggle,           \* the secret block is the one displayed
    next_passphrase,  \* the process-wide next-passphrase slot ("" when empty)
    pub_store,        \* the public keyblock as the keyring holds it
    sec_store,        \* the secret keyblock as the keyring holds it
    pc,               \* "menu" at the prompt, "left" once the loop was left
    last,             \* the command just run, with what it reported
    again,            \* the command just run repeats the command before it: a
                      \* sign with the same signers after one that signed all it
                      \* was to sign, a passwd with the same new passphrase after
                      \* one that changed it, a check that got another result
                      \* for a signature than the check before it, a save
                      \* after a save that failed, a save after a passwd that
                      \* took the protection off keys that were all protected
    snap,             \* both blocks as they were before the last adduid
    emptied,          \* passwd has reported 'changed' for a confirmed empty
                      \* passphrase in this session
    ncmds             \* the commands counted so far (counted in Spec only)

vars == <<keyblock, sec_keyblock, modified, sec_modified, toggle, next_passphrase,
          pub_store, sec_store, pc, last, again, snap, emptied, ncmds>>

NoCmd == [cmd |-> "none"]
NoSnap == [valid |-> FALSE]

cur_keyblock == IF toggle THEN sec_keyblock ELSE keyblock

\* the uid group of a loaded block: the uid, its self-signature, and a
\* certification by the foreign key K
UidGroup(u, secret) ==
    <<UserId(u.name)>>
    \o (IF u.self THEN <<Signature(PrimaryKeyId, CLASS_SELF)>> ELSE <<>>)
    \o (IF u.cert /\ ~secret THEN <<Signature("K", CLASS_CERT)>> ELSE <<>>)

RECURSIVE UidGroups(_, _, _)
UidGroups(uids, i, secret) ==
    IF i > Len(uids) THEN <<>>
    ELSE UidGroup(uids[i], secret) \o UidGroups(uids, i + 1, secret)

RECURSIVE PubSubkeys(_, _)
PubSubkeys(n, i) ==
    IF i > n THEN <<>>
    ELSE <<PublicSubkey(SubkeyIds[i]), BindingSig(PrimaryKeyId)>> \o PubSubkeys(n, i + 1)

RECURSIVE SecSubkeys(_, _, _)
SecSubkeys(n, i, prot) ==
    IF i > n THEN <<>>
    ELSE <<SecretSubkey(SubkeyIds[i], prot), BindingSig(PrimaryKeyId)>>
         \o SecSubkeys(n, i + 1, prot)

\* read_keyblock: the blocks a keyring may hold for the user
LoadPublic(uids, nsub) ==
    <<PublicKey(PrimaryKeyId)>> \o UidGroups(uids, 1, FALSE) \o PubSubkeys(nsub, 1)

LoadSecret(uids, nsub, prot) ==
    <<SecretKey(PrimaryKeyId, prot.primary, prot.algo)>> \o UidGroups(uids, 1, TRUE)
    \o SecSubkeys(nsub, 1, prot.sub)

Uid(name, self, cert) == [name |-> name, self |-> self, cert |-> cert]

\* the session after the two keyblocks were read
\* the session as it starts on the keyblocks pub and sec (<<>>: no secret
\* keyblock was found)
LoadedBlocks(pub, sec) ==
    /\ keyblock = pub
    /\ sec_keyblock = sec
    /\ modified = FALSE
    /\ sec_modified = FALSE
    /\ toggle = FALSE
    /\ next_passphrase = ""
    /\ pub_store = Pkts(pub)
    /\ sec_store = Pkts(sec)
    /\ pc = "menu"
    /\ last = NoCmd
    /\ again = FALSE
    /\ snap = NoSnap
    /\ emptied = FALSE
    /\ ncmds = 0

Loaded(uids, nsub, have_sec, prot) ==
    LoadedBlocks(LoadPublic(uids, nsub),
                 IF have_sec THEN LoadSecret(uids, nsub, prot) ELSE <<>>)

Clear == [primary |-> NoProtect, sub |-> NoProtect, algo |-> "ok"]
Locked(pw1, pw2) ==
    [primary |-> Protected(pw1, "s1"), sub |-> Protected(pw2, "s1"), algo |-> "ok"]

\* what a command leaves in the history
Hist(l) ==
    /\ last' = l
    /\ again' = CASE l.cmd = "sign" /\ last.cmd = "sign" ->
                        /\ last.sk_list = l.sk_list
                        /\ last.rc = 0
                        /\ \A k \in 1..Len(last.log) : last.log[k] # "declined"
                  [] l.cmd = "passwd" /\ last.cmd = "passwd" ->
                        last.ret /\ last.newpw = l.newpw
                  [] l.cmd \in {"save", "quit save"}
                        /\ last.cmd \in {"save", "quit save"} -> last.failed
                  [] l.cmd \in {"save", "quit save"} /\ last.cmd = "passwd" ->
                        /\ last.ret /\ last.newpw = ""
                        /\ \A i \in 1..Len(last.pre) :
                             IsSecret(last.pre[i]) => last.pre[i].protect.is_protected
                  [] l.cmd = "check" /\ last.cmd = "check" ->
                        \E i \in last.checked \cap l.checked : last.res[i] # l.res[i]
                  [] OTHER -> FALSE
    /\ emptied' = (emptied \/ (l.cmd = "passwd" /\ l.ret /\ l.newpw = ""))

----------------------------------------------------------------------------
(* Commands *)

\* the commands the cmds table flags need_sk
NeedSkCommands == {"adduid", "addkey", "toggle", "passwd"}

\* need_sk with the flag of toggle left 0
need_sk_toggle_free(c) == c \in NeedSkCommands \ {"toggle"}

need_sk(c) == c \in NeedSkCommands

\* the command lookup: a need_sk command without secret keyblock is cmdNOP
dispatch(c, sec) == IF need_sk(c) /\ sec = <<>> THEN "nop" ELSE c

\* uid N (also a bare number)
SelUid(n) ==
    /\ pc = "menu"
    /\ LET r == menu_select_uid(cur_keyblock, n)
       IN /\ IF toggle
             THEN sec_keyblock' = r.kb /\ UNCHANGED keyblock
             ELSE keyblock' = r.kb /\ UNCHANGED sec_keyblock
          /\ Hist([cmd |-> "uid", arg |-> n, ret |-> r.ret, msg |-> r.msg,
                   secret |-> toggle])
    /\ UNCHANGED <<modified, sec_modified, toggle, next_passphrase, pub_store,
                   sec_store, pc, snap>>

\* key N
SelKey(n) ==
    /\ pc = "menu"
    /\ LET r == menu_select_key(cur_keyblock, n)
       IN /\ IF toggle
             THEN sec_keyblock' = r.kb /\ UNCHANGED keyblock
             ELSE keyblock' = r.kb /\ UNCHANGED sec_keyblock
          /\ Hist([cmd |-> "key", arg |-> n, ret |-> r.ret, msg |-> r.msg,
                   secret |-> toggle])
    /\ UNCHANGED <<modified, sec_modified, toggle, next_passphrase, pub_store,
                   sec_store, pc, snap>>

\* toggle
ToggleView ==
    /\ pc = "menu"
    /\ dispatch("toggle", sec_keyblock) = "toggle"
    /\ toggle' = ~toggle
    /\ Hist([cmd |-> "toggle"])
    /\ UNCHANGED <<keyblock, sec_keyblock, modified, sec_modified, next_passphrase,
                   pub_store, sec_store, pc, snap>>

\* a command flagged need_sk, without a secret keyblock: cmdNOP
NeedSk(c) ==
    /\ pc = "menu"
    /\ dispatch(c, sec_keyblock) = "nop"
    /\ Hist([cmd |-> "nop", name |-> c])
    /\ UNCHANGED <<keyblock, sec_keyblock, modified, sec_modified, toggle,
                   next_passphrase, pub_store, sec_store, pc, snap>>

\* list, fpr, pref, trust, help, debug: they display and change no keyblock
Show(c) ==
    /\ pc = "menu"
    /\ Hist([cmd |-> c])
    /\ UNCHANGED <<keyblock, sec_keyblock, modified, sec_modified, toggle,
                   next_passphrase, pub_store, sec_store, pc, snap>>

\* check
Check(res) ==
    /\ pc = "menu"
    /\ LET r == check_all_keysigs(keyblock, count_selected_uids(keyblock) # 0, res)
       IN /\ keyblock' = r.kb
          /\ Hist([cmd |-> "check", res |-> [i \in r.checked |-> res[i]], ret |-> r.ret,
                   inv_sigs |-> r.inv_sigs, no_key |-> r.no_key, oth_err |-> r.oth_err,
                   mis_selfsig |-> r.mis_selfsig, visited |-> r.visited,
                   checked |-> r.checked])
    /\ snap' = NoSnap
    /\ UNCHANGED <<sec_keyblock, modified, sec_modified, toggle, next_passphrase,
                   pub_store, sec_store, pc>>

\* sign, the operator declining "Really sign all user ids?"
SignHint ==
    /\ pc = "menu"
    /\ count_uids(keyblock) > 1 /\ count_selected_uids(keyblock) = 0
    /\ Hist([cmd |-> "sign hint"])
    /\ UNCHANGED <<keyblock, sec_keyblock, modified, sec_modified, toggle,
                   next_passphrase, pub_store, sec_store, pc, snap>>

\* sign
Sign(list_rc, sk_list, answers, failAt) ==
    /\ pc = "menu"
    /\ LET r == sign_uids(keyblock, list_rc, sk_list, answers, failAt, modified)
       IN /\ keyblock' = r.kb
          /\ modified' = r.modified
          /\ Hist([cmd |-> "sign", rc |-> r.rc, sk_list |-> sk_list, log |-> r.log,
                   answers |-> answers,
                   calls |-> r.calls, trust_cleared |-> r.trust_cleared,
                   pre |-> keyblock])
    /\ snap' = NoSnap
    /\ UNCHANGED <<sec_keyblock, sec_modified, toggle, next_passphrase, pub_store,
                   sec_store, pc>>

\* adduid
Adduid(name, rc) ==
    /\ pc = "menu"
    /\ dispatch("adduid", sec_keyblock) = "adduid"
    /\ count_uids(keyblock) < MaxUids
    /\ LET r == menu_adduid(keyblock, sec_keyblock, name, rc)
       IN /\ keyblock' = r.pub
          /\ sec_keyblock' = r.sec
          /\ modified' = IF r.ret # 0 THEN TRUE ELSE modified
          /\ sec_modified' = IF r.ret # 0 THEN TRUE ELSE sec_modified
          /\ Hist([cmd |-> "adduid", ret |-> r.ret, name |-> name,
                   rc |-> IF name = "" THEN 0 ELSE rc])
          /\ snap' = IF r.ret # 0
                     THEN [valid |-> TRUE, pub |-> Pkts(keyblock),
                           sec |-> Pkts(sec_keyblock), name |-> name,
                           uid |-> IF r.pub_where = 0 THEN count_uids(keyblock) + 1
                                   ELSE UidOrdinal(keyblock, r.pub_where) + 1]
                     ELSE NoSnap
    /\ UNCHANGED <<toggle, next_passphrase, pub_store, sec_store, pc>>

\* deluid_refusal with the test for the last user id off by one
deluid_refusal_off_by_one(kb) ==
    LET n1 == count_selected_uids(kb)
    IN IF n1 = 0 THEN "You must select at least one user id."
       ELSE IF count_uids(kb) - n1 < 0 THEN "You can't delete the last user id!"
       ELSE ""

\* the refusals of cmdDELUID ("" when the command goes on to ask)
deluid_refusal(kb) ==
    LET n1 == count_selected_uids(kb)
    IN IF n1 = 0 THEN "You must select at least one user id."
       ELSE IF count_uids(kb) - n1 < 1 THEN "You can't delete the last user id!"
       ELSE ""

\* deluid; answer: the answer to "Really remove ...?"
Deluid(answer) ==
    /\ pc = "menu"
    /\ LET n1 == count_selected_uids(keyblock)
           run == deluid_refusal(keyblock) = "" /\ answer
           r == menu_deluid(keyblock, sec_keyblock)
       IN /\ keyblock' = IF run THEN r.pub ELSE keyblock
          /\ sec_keyblock' = IF run THEN r.sec ELSE sec_keyblock
          /\ modified' = IF run THEN TRUE ELSE modified
          /\ sec_modified' = IF run /\ sec_keyblock # <<>> THEN TRUE ELSE sec_modified
          /\ Hist([cmd |-> "deluid", ret |-> IF run THEN 1 ELSE 0,
                   msg |-> deluid_refusal(keyblock),
                   uids |-> count_uids(keyblock), n1 |-> n1,
                   sel |-> {n \in 1..count_uids(keyblock) :
                              "SELUID" \in keyblock[UidPos(keyblock, n)].flag},
                   snap |-> snap])
    /\ snap' = NoSnap
    /\ UNCHANGED <<toggle, next_passphrase, pub_store, sec_store, pc>>

\* addkey
Addkey(rc) ==
    /\ pc = "menu"
    /\ dispatch("addkey", sec_keyblock) = "addkey"
    /\ count_subkeys(keyblock) < MaxSubkeys
    /\ LET fresh == CHOOSE i \in 1..Len(SubkeyIds) :
                      /\ \A j \in 1..Len(keyblock) : keyblock[j].keyid # SubkeyIds[i]
                      /\ \A j \in 1..Len(sec_keyblock) : sec_keyblock[j].keyid # SubkeyIds[i]
           r == generate_subkeypair(keyblock, sec_keyblock, SubkeyIds[fresh], rc)
       IN /\ keyblock' = r.pub
          /\ sec_keyblock' = r.sec
          /\ modified' = IF r.ret # 0 THEN TRUE ELSE modified
          /\ sec_modified' = IF r.ret # 0 THEN TRUE ELSE sec_modified
          /\ Hist([cmd |-> "addkey", ret |-> r.ret])
    /\ snap' = NoSnap
    /\ UNCHANGED <<toggle, next_passphrase, pub_store, sec_store, pc>>

\* delkey; answer: the answer to "Do you really want to delete ...?", asked
\* only when a secret keyblock is loaded
Delkey(answer) ==
    /\ pc = "menu"
    /\ LET n1 == count_selected_keys(keyblock)
           run == n1 # 0 /\ ~(sec_keyblock # <<>> /\ ~answer)
           r == menu_delkey(keyblock, sec_keyblock)
       IN /\ keyblock' = IF run THEN r.pub ELSE keyblock
          /\ sec_keyblock' = IF run THEN r.sec ELSE sec_keyblock
          /\ modified' = IF run THEN TRUE ELSE modified
          /\ sec_modified' = IF run /\ sec_keyblock # <<>> THEN TRUE ELSE sec_modified
          /\ Hist([cmd |-> "delkey", ret |-> IF run THEN 1 ELSE 0])
    /\ snap' = NoSnap
    /\ UNCHANGED <<toggle, next_passphrase, pub_store, sec_store, pc>>

\* Passwd leaving sec_modified alone after a change
Passwd_flag_not_set(try, newpw, salt, confirm, failAt) ==
    /\ pc = "menu"
    /\ dispatch("passwd", sec_keyblock) = "passwd"
    /\ LET r == change_passphrase(sec_keyblock, try, newpw, salt, confirm, failAt)
       IN /\ sec_keyblock' = r.kb
          /\ sec_modified' = sec_modified
          /\ next_passphrase' = r.slot
          /\ Hist([cmd |-> "passwd", ret |-> r.ret, path |-> r.path,
                   newpw |-> newpw, salt |-> salt, try |-> try,
                   confirm |-> (newpw = "" /\ confirm),
                   failAt |-> IF newpw = "" THEN 0 ELSE failAt,
                   pre |-> sec_keyblock])
    /\ snap' = NoSnap
    /\ UNCHANGED <<keyblock, modified, toggle, pub_store, sec_store, pc>>

\* passwd
Passwd(try, newpw, salt, confirm, failAt) ==
    /\ pc = "menu"
    /\ dispatch("passwd", sec_keyblock) = "passwd"
    /\ LET r == change_passphrase(sec_keyblock, try, newpw, salt, confirm, failAt)
       IN /\ sec_keyblock' = r.kb
          /\ sec_modified' = IF r.ret THEN TRUE ELSE sec_modified
          /\ next_passphrase' = r.slot
          /\ Hist([cmd |-> "passwd", ret |-> r.ret, path |-> r.path,
                   newpw |-> newpw, salt |-> salt, try |-> try,
                   confirm |-> (newpw = "" /\ confirm),
                   failAt |-> IF newpw = "" THEN 0 ELSE failAt,
                   pre |-> sec_keyblock])
    /\ snap' = NoSnap
    /\ UNCHANGED <<keyblock, modified, toggle, pub_store, sec_store, pc>>

\* SaveBody writing the secret block whether or not the public write failed
SaveBody_secret_regardless(how, rc_pub, rc_sec) ==
    LET wr_pub == modified /\ rc_pub = 0
        wr_sec == sec_modified /\ rc_sec = 0
        failed == (modified /\ rc_pub # 0) \/ (sec_modified /\ rc_sec # 0)
    IN /\ pub_store' = IF wr_pub THEN Pkts(keyblock) ELSE pub_store
       /\ sec_store' = IF wr_sec THEN Pkts(sec_keyblock) ELSE sec_store
       /\ pc' = IF failed THEN "menu" ELSE "left"
       /\ Hist([cmd |-> how, wrote_pub |-> wr_pub, wrote_sec |-> wr_sec,
                tried_pub |-> modified,
                tried_sec |-> (sec_modified /\ ~(modified /\ rc_pub # 0)),
                failed |-> failed, modified |-> modified,
                sec_modified |-> sec_modified])
       /\ UNCHANGED <<keyblock, sec_keyblock, modified, sec_modified, toggle,
                      next_passphrase, snap>>

\* SaveBody ending the session also when a write failed
SaveBody_leave_on_failure(how, rc_pub, rc_sec) ==
    LET wr_pub == modified /\ rc_pub = 0
        wr_sec == sec_modified /\ ~(modified /\ rc_pub # 0) /\ rc_sec = 0
        failed == (modified /\ rc_pub # 0)
                  \/ (sec_modified /\ ~(modified /\ rc_pub # 0) /\ rc_sec # 0)
    IN /\ pub_store' = IF wr_pub THEN Pkts(keyblock) ELSE pub_store
       /\ sec_store' = IF wr_sec THEN Pkts(sec_keyblock) ELSE sec_store
       /\ pc' = "left"
       /\ Hist([cmd |-> how, wrote_pub |-> wr_pub, wrote_sec |-> wr_sec,
                tried_pub |-> modified,
                tried_sec |-> (sec_modified /\ ~(modified /\ rc_pub # 0)),
                failed |-> failed, modified |-> modified,
                sec_modified |-> sec_modified])
       /\ UNCHANGED <<keyblock, sec_keyblock, modified, sec_modified, toggle,
                      next_passphrase, snap>>

\* SaveBody writing both blocks when either is modified
SaveBody_write_both(how, rc_pub, rc_sec) ==
    LET either == modified \/ sec_modified
        wr_pub == either /\ rc_pub = 0
        wr_sec == either /\ sec_keyblock # <<>> /\ rc_pub = 0 /\ rc_sec = 0
        failed == either /\ (rc_pub # 0 \/ (sec_keyblock # <<>> /\ rc_sec # 0))
    IN /\ pub_store' = IF wr_pub THEN Pkts(keyblock) ELSE pub_store
       /\ sec_store' = IF wr_sec THEN Pkts(sec_keyblock) ELSE sec_store
       /\ pc' = IF failed THEN "menu" ELSE "left"
       /\ Hist([cmd |-> how, wrote_pub |-> wr_pub, wrote_sec |-> wr_sec,
                tried_pub |-> either,
                tried_sec |-> (either /\ sec_keyblock # <<>> /\ rc_pub = 0),
                failed |-> failed, modified |-> modified,
                sec_modified |-> sec_modified])
       /\ UNCHANGED <<keyblock, sec_keyblock, modified, sec_modified, toggle,
                      next_passphrase, snap>>

\* the body of cmdSAVE; rc_pub, rc_sec: the results of the two update_keyblock
SaveBody(how, rc_pub, rc_sec) ==
    LET wr_pub == modified /\ rc_pub = 0
        wr_sec == sec_modified /\ ~(modified /\ rc_pub # 0) /\ rc_sec = 0
        failed == (modified /\ rc_pub # 0)
                  \/ (sec_modified /\ ~(modified /\ rc_pub # 0) /\ rc_sec # 0)
    IN /\ pub_store' = IF wr_pub THEN Pkts(keyblock) ELSE pub_store
       /\ sec_store' = IF wr_sec THEN Pkts(sec_keyblock) ELSE sec_store
       /\ pc' = IF failed THEN "menu" ELSE "left"
       /\ Hist([cmd |-> how, wrote_pub |-> wr_pub, wrote_sec |-> wr_sec,
                tried_pub |-> modified,
                tried_sec |-> (sec_modified /\ ~(modified /\ rc_pub # 0)),
                failed |-> failed, modified |-> modified,
                sec_modified |-> sec_modified])
       /\ UNCHANGED <<keyblock, sec_keyblock, modified, sec_modified, toggle,
                      next_passphrase, snap>>

\* save
Save(rc_pub, rc_sec) ==
    /\ pc = "menu"
    /\ SaveBody("save", rc_pub, rc_sec)

\* quit with nothing modified, or declining to save and leaving
QuitLeave ==
    /\ pc = "menu"
    /\ pc' = "left"
    /\ Hist([cmd |-> "quit", saved |-> FALSE, asked |-> (modified \/ sec_modified)])
    /\ UNCHANGED <<keyblock, sec_keyblock, modified, sec_modified, toggle,
                   next_passphrase, pub_store, sec_store, snap>>

\* quit, "Save changes?" and "Quit without saving?" both answered no
QuitStay ==
    /\ pc = "menu"
    /\ modified \/ sec_modified
    /\ Hist([cmd |-> "quit stay"])
    /\ UNCHANGED <<keyblock, sec_keyblock, modified, sec_modified, toggle,
                   next_passphrase, pub_store, sec_store, pc, snap>>

\* quit, "Save changes?" answered yes: falls through to cmdSAVE
QuitSave(rc_pub, rc_sec) ==
    /\ pc = "menu"
    /\ modified \/ sec_modified
    /\ SaveBody("quit save", rc_pub, rc_sec)

----------------------------------------------------------------------------
(* Specifications.  Spec runs every command on the keyblocks of a small    *)
(* keyring; the others run the commands of one concern on more keyblocks   *)
(* and with every input of the collaborators.                              *)

\* the signer lists build_sk_list may return: no key is listed twice
SignerLists ==
    {<<k>> : k \in SignerKeyIds}
    \cup {<<k, l>> : <<k, l>> \in {p \in SignerKeyIds \X SignerKeyIds : p[1] # p[2]}}

ShowCommands == {"list", "fpr", "pref", "trust", "help", "debug", "invalid"}

Bare == Uid("Alice", FALSE, FALSE)
Self == Uid("Alice", TRUE, FALSE)
SelfCert == Uid("Alice", TRUE, TRUE)

SelectUid == \E n \in (-1)..(count_uids(cur_keyblock) + 1) : SelUid(n)
SelectKey == \E n \in (-1)..(count_subkeys(cur_keyblock) + 1) : SelKey(n)
Rejected == \E c \in NeedSkCommands : NeedSk(c)
DoAdduid == \E name \in Names \cup {""}, rc \in {0, 1} : Adduid(name, rc)
DoDeluid == \E answer \in BOOLEAN : Deluid(answer)
DoAddkey == \E rc \in {0, 1} : Addkey(rc)
DoDelkey == \E answer \in BOOLEAN : Delkey(answer)
DoCheck == \E res \in [CheckablePositions(keyblock) -> Results] : Check(res)
DoSign ==
    \/ Sign(1, <<>>, <<>>, 0)
    \/ \E sk_list \in SignerLists, failAt \in 0..2 :
         \E answers \in [1..Len(sk_list) -> BOOLEAN] :
            Sign(0, sk_list, answers, failAt)
DoPasswd ==
    \E try \in SUBSET Passphrases :
        \/ \E confirm \in BOOLEAN : Passwd(try, "", "s1", confirm, 0)
        \/ \E newpw \in Passphrases, salt \in Salts, failAt \in 0..2 :
             Passwd(try, newpw, salt, FALSE, failAt)
DoSave == \E rc_pub \in {0, 1}, rc_sec \in {0, 1} : Save(rc_pub, rc_sec)
DoQuitSave == \E rc_pub \in {0, 1}, rc_sec \in {0, 1} : QuitSave(rc_pub, rc_sec)

(* adduid, deluid and the selection they work on *)
InitEdit ==
    \E uids \in {<<>>, <<Self>>}, nsub \in 0..1, have_sec \in BOOLEAN :
        Loaded(uids, nsub, have_sec, Clear)

NextEdit ==
    /\ UNCHANGED ncmds
    /\ \/ SelectUid
       \/ ToggleView
       \/ DoAdduid
       \/ DoDeluid

SpecEdit == InitEdit /\ [][NextEdit]_vars

(* addkey, delkey and the selection they work on *)
InitKey ==
    \E nsub \in 0..1, have_sec \in BOOLEAN : Loaded(<<Self>>, nsub, have_sec, Clear)

NextKey ==
    /\ UNCHANGED ncmds
    /\ \/ SelectKey
       \/ ToggleView
       \/ Rejected
       \/ DoAddkey
       \/ DoDelkey

SpecKey == InitKey /\ [][NextKey]_vars

(* sign *)
InitSign ==
    \E uids \in {<<>>, <<Bare>>, <<Self, Bare>>, <<Bare, SelfCert>>} :
        Loaded(uids, 0, FALSE, Clear)

NextSign ==
    /\ UNCHANGED ncmds
    /\ \/ SelectUid
       \/ SignHint
       \/ DoSign

SpecSign == InitSign /\ [][NextSign]_vars

(* check *)
InitCheck ==
    \E uids \in {<<>>, <<Bare>>, <<Self>>, <<SelfCert>>, <<Self, Bare>>,
                 <<Bare, Self>>, <<SelfCert, Self>>} :
        Loaded(uids, 1, FALSE, Clear)

NextCheck ==
    /\ UNCHANGED ncmds
    /\ \/ SelectUid
       \/ DoCheck

SpecCheck == InitCheck /\ [][NextCheck]_vars

(* passwd, and the save that follows it *)
InitPasswd ==
    \E nsub \in 0..2,
       prot \in {Clear, Locked("pw1", "pw1"), Locked("pw1", "pw2"),
                 [Clear EXCEPT !.algo = "unknown"],
                 [Clear EXCEPT !.sub = Protected("pw2", "s2")]} :
        \/ Loaded(<<Self>>, nsub, TRUE, prot)
        \* a secret keyblock whose primary key packet is not there
        \/ /\ nsub = 0
           /\ LoadedBlocks(LoadPublic(<<Self>>, 0), Tail(LoadSecret(<<Self>>, 0, prot)))

NextPasswd ==
    /\ UNCHANGED ncmds
    /\ \/ DoPasswd
       \/ Save(0, 0)

SpecPasswd == InitPasswd /\ [][NextPasswd]_vars

(* save and quit, after commands that modify one block or both *)
InitStore ==
    \E nsub \in 0..1, have_sec \in BOOLEAN : Loaded(<<Self>>, nsub, have_sec, Clear)

NextStore ==
    /\ UNCHANGED ncmds
    /\ \/ \E rc \in {0, 1} : Adduid("Bob", rc)
       \/ Sign(0, <<"K">>, <<TRUE>>, 0)
       \/ \E confirm \in BOOLEAN : Passwd({}, "", "s1", confirm, 0)
       \/ DoSave
       \/ QuitLeave
       \/ QuitStay
       \/ DoQuitSave

SpecStore == InitStore /\ [][NextStore]_vars

(* passwd on protected keys, among commands that modify the secret block *)
InitProtect ==
    \E nsub \in 0..1, prot \in {Locked("pw1", "pw1"), Locked("pw1", "pw2")} :
        Loaded(<<Self>>, nsub, TRUE, prot)

NextProtect ==
    /\ UNCHANGED ncmds
    /\ \/ \E try \in {{"pw1"}, {"pw1", "pw2"}} :
            \/ \E confirm \in BOOLEAN : Passwd(try, "", "s1", confirm, 0)
            \/ \E failAt \in 0..2 : Passwd(try, "pw2", "s1", FALSE, failAt)
       \/ Adduid("Bob", 0)
       \/ Save(0, 0)

SpecProtect == InitProtect /\ [][NextProtect]_vars

(* selection in either view, and the commands that work on a selection *)
InitSelect ==
    \E nsub \in 0..1 :
        Loaded(<<Self, Uid("Bob", TRUE, FALSE)>>, nsub, TRUE, Clear)

NextSelect ==
    /\ UNCHANGED ncmds
    /\ \/ SelectUid
       \/ SelectKey
       \/ ToggleView
       \/ Deluid(TRUE)
       \/ Delkey(TRUE)
       \/ Sign(0, <<"K">>, <<TRUE>>, 0)
       \/ Check([i \in CheckablePositions(keyblock) |-> "ok"])

SpecSelect == InitSelect /\ [][NextSelect]_vars

(* every command *)
Init ==
    \E have_sec \in BOOLEAN : Loaded(<<Self>>, 0, have_sec, Clear)

Next ==
    /\ ncmds < MaxCmds
    /\ ncmds' = ncmds + 1
    /\ \/ SelectUid
       \/ SelectKey
       \/ ToggleView
       \/ Rejected
       \/ \E c \in ShowCommands : Show(c)
       \/ \E r \in Results : Check([i \in CheckablePositions(keyblock) |-> r])
       \/ SignHint
       \/ \E list_rc \in {0, 1}, answer \in BOOLEAN, failAt \in 0..1 :
            Sign(list_rc, <<"K">>, <<answer>>, failAt)
       \/ \E name \in {"Alice", ""}, rc \in {0, 1} : Adduid(name, rc)
       \/ DoDeluid
       \/ DoAddkey
       \/ DoDelkey
       \/ \E newpw \in {"pw1", ""}, confirm \in BOOLEAN, failAt \in 0..1 :
            Passwd({"pw1"}, newpw, "s1", confirm, failAt)
       \/ DoSave
       \/ QuitLeave
       \/ QuitStay
       \/ DoQuitSave

Spec == Init /\ [][Next]_vars

----------------------------------------------------------------------------
(* Properties.                                                             *)

\* the names of the user ids of a keyblock, and the key ids of its subkeys
UidNames(kb) == {kb[i].name : i \in {j \in 1..Len(kb) : kb[j].pkttype = "USER_ID"}}
SubkeyIdsOf(kb) == {kb[i].keyid : i \in {j \in 1..Len(kb) : IsSubkey(kb[j])}}

\* C1: pair invariant.  Whenever a secret keyblock is present, every user id
\* of the public keyblock has a user id of the same name in the secret
\* keyblock and every subkey of either block has its counterpart, by key id,
\* in the other; adduid, deluid, addkey and delkey keep it.
C1_PairInvariant ==
    sec_keyblock # <<>> =>
        /\ UidNames(keyblock) \subseteq UidNames(sec_keyblock)
        /\ SubkeyIdsOf(keyblock) = SubkeyIdsOf(sec_keyblock)

\* C2: last uid.  A public keyblock with at least one user id never gets to
\* zero user ids, and deluid refuses, leaving the keyblock alone, whenever the
\* selection would take the last one (count_uids - selected < 1).
C2_LastUid ==
    /\ [][count_uids(keyblock) >= 1 => count_uids(keyblock') >= 1]_vars
    /\ []((last.cmd = "deluid" /\ last.n1 > 0 /\ last.uids - last.n1 < 1) =>
            /\ last.ret = 0
            /\ last.msg = "You can't delete the last user id!"
            /\ count_uids(keyblock) = last.uids)

C2_Witness ==
    /\ last.cmd = "deluid"
    /\ last.n1 = 2
    /\ last.uids = 2
    /\ last.ret = 0
    /\ count_uids(keyblock) = 2

IsSave == last.cmd \in {"save", "quit save"}

\* C3 as stated: save is atomic over the two blocks.  When both blocks are
\* modified a save persists both or neither: no state has the public block
\* written and the secret block not.
C3_SaveAtomic ==
    (IsSave /\ last.modified /\ last.sec_modified) =>
        (last.wrote_pub <=> last.wrote_sec)

\* C3: save order.  When both blocks are modified a save writes the public
\* block first and the secret block only after the public block is written:
\* the secret block is never persisted while the public one is not.  When
\* the secret write fails the public block stays persisted, the session
\* stays in the menu and both modified flags stay set; when both writes
\* succeed both stores hold the edited blocks and the session ends.
C3_SaveOrdered ==
    (IsSave /\ last.modified /\ last.sec_modified) =>
        /\ last.wrote_sec => last.wrote_pub
        /\ last.wrote_pub => pub_store = Pkts(keyblock)
        /\ last.wrote_sec => sec_store = Pkts(sec_keyblock)
        /\ last.failed <=> ~(last.wrote_pub /\ last.wrote_sec)
        /\ last.failed => pc = "menu" /\ modified /\ sec_modified
        /\ ~last.failed => pc = "left"

C3_Witness ==
    /\ last.cmd = "save"
    /\ last.modified /\ last.sec_modified
    /\ last.wrote_pub /\ ~last.wrote_sec
    /\ pub_store = Pkts(keyblock)
    /\ sec_store # Pkts(sec_keyblock)
    /\ pc = "menu"

\* the signatures that follow the uid at position u, up to the next node that
\* is not a signature
GroupOf(kb, u) ==
    {i \in (u + 1)..Len(kb) : \A j \in (u + 1)..i : kb[j].pkttype = "SIGNATURE"}

\* the number of signatures of the classes cs by key k on the n-th uid
SigsBy(kb, n, k, cs) ==
    Cardinality({i \in GroupOf(kb, UidPos(kb, n)) :
                    kb[i].keyid = k /\ kb[i].sig_class \in cs})

CertClasses == {c \in 0..31 : IsCertClass(c)}

\* the ordinals of the uids sign works on: the selected ones, every one when
\* none is selected
SignTargets(kb) ==
    LET sel == {n \in 1..count_uids(kb) : "SELUID" \in kb[UidPos(kb, n)].flag}
    IN IF sel = {} THEN 1..count_uids(kb) ELSE sel

\* what signer k is to sign: the targets it has not certified yet
ToSign(kb, k) == {n \in SignTargets(kb) : SigsBy(kb, n, k, CertClasses) = 0}

RECURSIVE SumOver(_, _)
SumOver(S, f) ==
    IF S = {} THEN 0
    ELSE LET x == CHOOSE y \in S : TRUE IN f[x] + SumOver(S \ {x}, f)

\* C4: select-all-if-none.  After sign, for every signer that was answered
\* yes and whose signatures were all produced, each uid it was to sign (the
\* selected uids, every uid when none is selected, less the uids it had
\* certified already) has exactly one new class 0x10 signature by it; no
\* other uid gains a signature, nothing else is inserted, and the modified
\* flag is set when a signature was added.
C4_SelectAllIfNone ==
    last.cmd = "sign" /\ last.rc = 0 =>
        LET pre == last.pre
            yes(k) == \E j \in 1..Len(last.sk_list) :
                         last.sk_list[j] = k /\ last.answers[j]
            gain == [x \in (1..count_uids(pre)) \X SignerKeyIds |->
                        SigsBy(keyblock, x[1], x[2], {CLASS_CERT})
                        - SigsBy(pre, x[1], x[2], {CLASS_CERT})]
        IN /\ count_uids(keyblock) = count_uids(pre)
           /\ \A x \in DOMAIN gain :
                gain[x] = IF yes(x[2]) /\ x[1] \in ToSign(pre, x[2]) THEN 1 ELSE 0
           /\ Len(keyblock) = Len(pre) + SumOver(DOMAIN gain, gain)
           /\ SumOver(DOMAIN gain, gain) > 0 => modified
           /\ \A j \in 1..Len(last.log) :
                last.log[j] = "signed" <=>
                    last.answers[j] /\ ToSign(pre, last.sk_list[j]) # {}

C4_Witness ==
    /\ last.cmd = "sign" /\ last.rc = 0
    /\ count_uids(last.pre) = 2
    /\ count_selected_uids(last.pre) = 1
    /\ Len(keyblock) = Len(last.pre) + 1
    /\ modified

\* C5: sign is idempotent per signer.  When sign is run again with the same
\* signers after a run in which every confirmation was answered yes and
\* every signature was produced, the second run makes no signature, reports
\* nothing to sign for every signer, leaves no uid marked and leaves the
\* keyblock's packets as they were, every targeted uid carrying exactly one
\* certification by each signer.
C5_SignIdempotent ==
    last.cmd = "sign" /\ again /\ last.rc = 0 =>
        /\ last.calls = 0
        /\ Len(last.log) = Len(last.sk_list)
        /\ \A j \in 1..Len(last.log) : last.log[j] = "nothing"
        /\ Pkts(keyblock) = Pkts(last.pre)
        /\ count_uids_with_flag(keyblock, "MARK_A") = 0
        /\ \A n \in SignTargets(last.pre) :
             \A j \in 1..Len(last.sk_list) :
                SigsBy(keyblock, n, last.sk_list[j], CertClasses) = 1

C5_Witness ==
    /\ last.cmd = "sign" /\ again /\ last.rc = 0
    /\ Len(last.sk_list) = 2
    /\ count_uids(keyblock) = 2
    /\ count_selected_uids(keyblock) = 0
    /\ modified

\* C6: MARK_A is transient.  No node of the keyblock carries MARK_A when the
\* session is in the menu loop, whatever path sign took.
C6_MarkATransient ==
    \A i \in 1..Len(keyblock) : "MARK_A" \notin keyblock[i].flag

\* the uids check visits: the selected ones, every one when none is selected
CheckVisits(kb) ==
    LET uids == {i \in 1..Len(kb) : kb[i].pkttype = "USER_ID"}
        sel == {i \in uids : "SELUID" \in kb[i].flag}
    IN IF sel = {} THEN uids ELSE sel

\* the uid at position u has a self-signature that verified ok under res
HasGoodSelfsig(kb, u, res) ==
    \E i \in (u + 1)..Len(kb) :
        /\ \A j \in (u + 1)..i : kb[j].pkttype # "USER_ID"
        /\ kb[i].pkttype = "SIGNATURE"
        /\ IsCertClass(kb[i].sig_class)
        /\ kb[i].keyid = kb[PrimaryOf(kb)].keyid
        /\ res[i] = "ok"

\* C7: missing self-signatures.  After check, the count of user ids without
\* valid self-signature equals the number of visited uids (every uid, or the
\* selected ones) none of whose self-signatures verified ok, for every
\* keyblock whatever its number of uids.
C7_MissingSelf ==
    last.cmd = "check" =>
        last.mis_selfsig =
            Cardinality({u \in CheckVisits(keyblock) :
                            ~HasGoodSelfsig(keyblock, u, last.res)})

SigFlags == {"BADSIG", "NOKEY", "SIGERR"}

\* C8: BADSIG, NOKEY and SIGERR exclude each other.  In every state every
\* node of both keyblocks carries at most one of the three, also when check
\* is repeated and a signature's verification result changes.
C8_SigFlagsExclusive ==
    /\ \A i \in 1..Len(keyblock) :
         Cardinality(keyblock[i].flag \cap SigFlags) <= 1
    /\ \A i \in 1..Len(sec_keyblock) :
         Cardinality(sec_keyblock[i].flag \cap SigFlags) <= 1

C8_Witness ==
    /\ last.cmd = "check" /\ again
    /\ \E i \in last.checked : last.res[i] = "no_pubkey" /\ "NOKEY" \in keyblock[i].flag
    /\ \E i \in last.checked : last.res[i] = "other" /\ "SIGERR" \in keyblock[i].flag

\* C9: round trip.  A deluid run with only the uid selected that the adduid
\* before it had added (selection commands alone in between) leaves the
\* public and the secret keyblock with the packets they had before that
\* adduid, whatever name was entered.
C9_AddDelRoundTrip ==
    (last.cmd = "deluid" /\ last.ret = 1 /\ last.snap.valid
        /\ last.sel = {last.snap.uid}) =>
        /\ Pkts(keyblock) = last.snap.pub
        /\ Pkts(sec_keyblock) = last.snap.sec

SecretKeys(kb) == {i \in 1..Len(kb) : IsSecret(kb[i])}

\* the passphrase pw decrypts the secret key sk
Decrypts(sk, pw) == ~sk.protect.is_protected \/ sk.protect.dek = pw

\* C10: passwd protects all keys alike.  After passwd changed the passphrase
\* to a non-empty one, the primary secret key and every secret subkey are
\* protected with the key derived from it and with the same string-to-key
\* parameters, so every secret key is decrypted by the new passphrase, also
\* when passwd is run a second time with the same new passphrase.
C10_PasswdProtectsAll ==
    (last.cmd = "passwd" /\ last.ret /\ last.newpw # "") =>
        /\ \A i \in SecretKeys(sec_keyblock) :
             /\ sec_keyblock[i].protect = Protected(last.newpw, last.salt)
             /\ Decrypts(sec_keyblock[i], last.newpw)
        /\ \A i, j \in SecretKeys(sec_keyblock) :
             sec_keyblock[i].protect = sec_keyblock[j].protect
        /\ sec_modified

C10_Witness ==
    /\ last.cmd = "passwd" /\ last.ret /\ last.newpw # ""
    /\ again
    /\ Cardinality(SecretKeys(sec_keyblock)) = 3
    /\ \A i \in SecretKeys(sec_keyblock) : Decrypts(sec_keyblock[i], last.newpw)

\* the position of the primary secret key of kb, 0 when there is none
PrimarySk(kb) ==
    LET S == {i \in 1..Len(kb) : kb[i].pkttype = "SECRET_KEY"}
    IN IF S = {} THEN 0 ELSE CHOOSE i \in S : \A j \in S : i <= j

\* the operator who can type the passphrases try unlocks the key sk
CanUnlock(sk, try) == ~sk.protect.is_protected \/ sk.protect.dek \in try

\* passwd, run on kb with these inputs, gets through every step: the primary
\* is there and of a supported algorithm, every key unlocks, and either the
\* empty passphrase is confirmed or no protect_secret_key call fails
PasswdGoesThrough(l) ==
    LET kb == l.pre IN
    /\ PrimarySk(kb) # 0
    /\ kb[PrimarySk(kb)].pubkey_algo # "unknown"
    /\ \A i \in SecretKeys(kb) : CanUnlock(kb[i], l.try)
    /\ IF l.newpw = "" THEN l.confirm
       ELSE l.failAt = 0 \/ l.failAt > Cardinality(SecretKeys(kb))

\* C11: passwd reports 'changed' exactly when no step failed.  It reports
\* 'not changed' when the primary secret key is missing, its algorithm is
\* unsupported, the primary or a subkey does not unlock, protect_secret_key
\* fails for the primary or a subkey, or the empty passphrase is declined;
\* otherwise it reports 'changed', every key then being protected anew
\* (with the new passphrase, or not at all for the confirmed empty one).
C11_ChangedIff ==
    last.cmd = "passwd" =>
        /\ last.ret <=> PasswdGoesThrough(last)
        /\ last.ret =>
             \A i \in SecretKeys(sec_keyblock) :
                sec_keyblock[i].protect.is_protected <=> last.newpw # ""
        /\ last.ret => sec_modified

C11_Witness ==
    /\ last.cmd = "passwd" /\ ~last.ret
    /\ last.newpw # "" /\ last.failAt = 2
    /\ Cardinality(SecretKeys(last.pre)) = 3
    /\ \A i \in SecretKeys(last.pre) : CanUnlock(last.pre[i], last.try)

\* C12: the next-passphrase slot is empty after passwd.  Whatever path
\* passwd took, the slot is empty when the session is back in the menu, so
\* the passphrase captured from the primary key is not left for a later
\* command.
C12_SlotCleared ==
    next_passphrase = ""

C12_Witness ==
    /\ last.cmd = "passwd" /\ ~last.ret
    /\ last.path = "unlock failed"
    /\ PrimarySk(last.pre) # 0
    /\ last.pre[PrimarySk(last.pre)].protect.is_protected
    /\ ~sec_keyblock[PrimarySk(sec_keyblock)].protect.is_protected
    /\ next_passphrase = ""

\* C13: need_sk.  Without a secret keyblock none of adduid, addkey, toggle
\* and passwd is executed: such a command is turned into a no-op that leaves
\* both keyblocks, both modified flags, the view, the slot and the stores
\* as they are.
C13_NeedSk ==
    [][sec_keyblock = <<>> =>
        /\ last'.cmd \notin NeedSkCommands
        /\ sec_keyblock' = <<>> /\ toggle' = toggle
        /\ sec_modified' = sec_modified
        /\ (last'.cmd = "nop" =>
              UNCHANGED <<keyblock, sec_keyblock, modified, sec_modified, toggle,
                          next_passphrase, pub_store, sec_store, pc>>)]_vars

C13_Witness ==
    /\ sec_keyblock = <<>>
    /\ last.cmd = "nop" /\ last.name = "toggle"
    /\ ~toggle /\ ~modified /\ ~sec_modified

\* C14: a failed save can be retried.  When a write fails during save, also
\* a save reached through quit, the session stays in the menu and both
\* modified flags keep their values; the save after it calls
\* update_keyblock again for every block whose flag is set.
C14_SaveRetry ==
    IsSave =>
        /\ last.failed => /\ pc = "menu"
                          /\ modified = last.modified
                          /\ sec_modified = last.sec_modified
        /\ last.tried_pub <=> last.modified
        /\ again => /\ last.modified \/ last.sec_modified
                    /\ last.tried_pub \/ last.tried_sec
        /\ (again /\ ~last.failed) =>
              /\ last.modified => last.wrote_pub /\ pub_store = Pkts(keyblock)
              /\ last.sec_modified => last.wrote_sec /\ sec_store = Pkts(sec_keyblock)

C14_Witness ==
    /\ last.cmd = "quit save" /\ again /\ ~last.failed
    /\ last.wrote_pub /\ last.wrote_sec
    /\ pc = "left"

\* C15: writes need the flag and the operator's choice.  The stores change
\* only in save or in quit answered yes; a save writes a block only when
\* that block's own modified flag is set, and with neither flag set it
\* writes nothing and ends the session; quit never writes.
C15_WriteOnlyModified ==
    /\ [][last'.cmd \notin {"save", "quit save"} =>
            UNCHANGED <<pub_store, sec_store>>]_vars
    /\ [][pub_store' # pub_store => modified]_vars
    /\ [][sec_store' # sec_store => sec_modified]_vars
    /\ [](IsSave => /\ last.wrote_pub => last.tried_pub /\ last.modified
                    /\ last.wrote_sec => last.tried_sec /\ last.sec_modified
                    /\ last.tried_sec => last.sec_modified
                    /\ (~last.modified /\ ~last.sec_modified) => pc = "left")
    /\ [](last.cmd = "quit" => pc = "left")

C15_Witness ==
    /\ last.cmd = "save"
    /\ sec_keyblock # <<>>
    /\ last.modified /\ ~last.sec_modified
    /\ last.wrote_pub /\ ~last.wrote_sec /\ ~last.tried_sec
    /\ pub_store = Pkts(keyblock)
    /\ pc = "left"

\* the flags of node i of kb with the flag f flipped
Flipped(kb, i, f) ==
    IF f \in kb[i].flag THEN kb[i].flag \ {f} ELSE kb[i].flag \cup {f}

\* C16: uid N.  uid 0 clears SELUID on every uid, so no uid is selected
\* after it; uid N with 1 <= N <= count_uids flips SELUID of the N-th uid
\* of the keyblock in view and changes no other flag of any node, no
\* packet, and nothing in the other keyblock: from no selection one uid N
\* gives a count of 1, and uid N on the one selected uid gives 0.
C16_SelectUid ==
    [][last'.cmd = "uid" =>
        LET kb == cur_keyblock
            new == cur_keyblock'
            n == last'.arg
        IN /\ toggle' = toggle
           /\ IF toggle THEN keyblock' = keyblock ELSE sec_keyblock' = sec_keyblock
           /\ Len(new) = Len(kb)
           /\ \A i \in 1..Len(kb) : [new[i] EXCEPT !.flag = {}] = [kb[i] EXCEPT !.flag = {}]
           /\ n = 0 =>
                /\ count_selected_uids(new) = 0
                /\ \A i \in 1..Len(kb) :
                     new[i].flag = IF kb[i].pkttype = "USER_ID"
                                   THEN kb[i].flag \ {"SELUID"} ELSE kb[i].flag
           /\ (1 <= n /\ n <= count_uids(kb)) =>
                /\ last'.ret = 1
                /\ \A i \in 1..Len(kb) :
                     new[i].flag = IF kb[i].pkttype = "USER_ID" /\ UidOrdinal(kb, i) = n
                                   THEN Flipped(kb, i, "SELUID") ELSE kb[i].flag
                /\ count_selected_uids(kb) = 0 => count_selected_uids(new) = 1
                /\ (count_selected_uids(kb) = 1
                    /\ "SELUID" \in kb[UidPos(kb, n)].flag) => count_selected_uids(new) = 0
    ]_vars

C16_Witness ==
    /\ last.cmd = "uid" /\ last.arg = 2 /\ last.ret = 1
    /\ count_uids(cur_keyblock) = 2
    /\ count_selected_uids(cur_keyblock) = 1
    /\ "SELUID" \in cur_keyblock[UidPos(cur_keyblock, 1)].flag
    /\ "SELUID" \notin cur_keyblock[UidPos(cur_keyblock, 2)].flag

\* C17: index not found.  uid N with N above the number of uids and key N
\* with N above the number of subkeys of the keyblock in view report no
\* change, print the not-found message and leave every node of both
\* keyblocks as it is.
C17_SelectNotFound ==
    [][/\ (last'.cmd = "uid" /\ last'.arg > count_uids(cur_keyblock)) =>
            /\ last'.ret = 0
            /\ last'.msg = "No user id with index"
            /\ UNCHANGED <<keyblock, sec_keyblock>>
       /\ (last'.cmd = "key" /\ last'.arg > count_subkeys(cur_keyblock)) =>
            /\ last'.ret = 0
            /\ last'.msg = "No secondary key with index"
            /\ UNCHANGED <<keyblock, sec_keyblock>>
    ]_vars

C17_Witness ==
    /\ last.cmd = "key" /\ last.ret = 0
    /\ last.arg = 2
    /\ count_subkeys(cur_keyblock) = 1
    /\ count_selected_keys(cur_keyblock) = 1

\* the uids of kb in keyblock order, each with its name and its selection
RECURSIVE SelBits(_)
SelBits(kb) ==
    IF kb = <<>> THEN <<>>
    ELSE IF Head(kb).pkttype = "USER_ID"
    THEN <<[name |-> Head(kb).name, sel |-> "SELUID" \in Head(kb).flag]>>
         \o SelBits(Tail(kb))
    ELSE SelBits(Tail(kb))

RECURSIVE Without(_, _)
Without(seq, drop) ==
    IF seq = <<>> THEN <<>>
    ELSE IF Head(seq) \in drop THEN Without(Tail(seq), drop)
    ELSE <<Head(seq)>> \o Without(Tail(seq), drop)

IsPrefix(a, b) == Len(a) <= Len(b) /\ SubSeq(b, 1, Len(a)) = a

\* C18: selection persists.  Only uid N changes the SELUID flag of a uid
\* that stays in its keyblock.  sign, check, key N, the displaying
\* commands, passwd, toggle, addkey, delkey, save and quit leave the uids
\* of both keyblocks and their selection as they are; adduid adds its uid
\* behind the others, whose selection stays; deluid takes the selected uids
\* out of the public keyblock (and the uids of these names out of the
\* secret one) and leaves the others unselected as they were.
C18_SelectionPersists ==
    [][last'.cmd # "uid" =>
        LET gone == {x \in {SelBits(keyblock)[i] : i \in 1..Len(SelBits(keyblock))} : x.sel}
            gone_sec == {x \in {SelBits(sec_keyblock)[i] :
                                    i \in 1..Len(SelBits(sec_keyblock))} :
                            \E y \in gone : y.name = x.name}
        IN CASE last'.cmd = "adduid" ->
                  /\ IsPrefix(SelBits(keyblock), SelBits(keyblock'))
                  /\ IsPrefix(SelBits(sec_keyblock), SelBits(sec_keyblock'))
             [] last'.cmd = "deluid" /\ last'.ret = 1 ->
                  /\ SelBits(keyblock') = Without(SelBits(keyblock), gone)
                  /\ SelBits(sec_keyblock') = Without(SelBits(sec_keyblock), gone_sec)
             [] OTHER ->
                  /\ SelBits(keyblock') = SelBits(keyblock)
                  /\ SelBits(sec_keyblock') = SelBits(sec_keyblock)
    ]_vars

C18_Witness ==
    /\ last.cmd = "sign" /\ last.rc = 0 /\ last.calls = 1
    /\ count_uids(keyblock) = 2
    /\ count_selected_uids(keyblock) = 1
    /\ count_selected_uids(last.pre) = 1

\* C19: changing to the empty passphrase.  When every key is protected, the
\* operator can type the current passphrases, enters the empty passphrase
\* and confirms, passwd reports 'changed', every secret key of the block is
\* unprotected in memory and sec_modified is set; the save after it writes
\* the secret block, unprotected keys and all, to the store.
C19_EmptyPassphrase ==
    /\ (/\ last.cmd = "passwd" /\ last.newpw = "" /\ last.confirm
        /\ PrimarySk(last.pre) # 0
        /\ last.pre[PrimarySk(last.pre)].pubkey_algo # "unknown"
        /\ \A i \in SecretKeys(last.pre) :
             last.pre[i].protect.is_protected /\ last.pre[i].protect.dek \in last.try) =>
          /\ last.ret
          /\ last.path = "empty"
          /\ \A i \in SecretKeys(sec_keyblock) : ~sec_keyblock[i].protect.is_protected
          /\ SecretKeys(sec_keyblock) = SecretKeys(last.pre)
          /\ sec_modified
    /\ (IsSave /\ again) =>
          /\ last.sec_modified /\ last.wrote_sec
          /\ sec_store = Pkts(sec_keyblock)
          /\ \A i \in SecretKeys(sec_store) : ~sec_store[i].protect.is_protected

C19_Witness ==
    /\ last.cmd = "save" /\ again
    /\ last.wrote_sec
    /\ Cardinality(SecretKeys(sec_store)) = 3
    /\ \A i \in SecretKeys(sec_store) : ~sec_store[i].protect.is_protected

\* C20: trust flag.  Whenever sign has produced and inserted at least one
\* signature, clear_trust_checked_flag has been called on the primary key
\* by the time sign_uids returns.
C20_TrustCleared ==
    (last.cmd = "sign" /\ Len(keyblock) > Len(last.pre)) => last.trust_cleared

\* C21: a signing failure aborts that signer only.  When make_keysig_packet
\* fails for one signer, every signer of the list is still processed in the
\* same sign (each reports nothing to sign, declined, signed or failed), and
\* the signatures inserted before the failure stay in the keyblock.
C21_FailureAbortsSignerOnly ==
    (last.cmd = "sign" /\ \E j \in 1..Len(last.log) : last.log[j] = "failed") =>
        /\ Len(last.log) = Len(last.sk_list)
        /\ Len(keyblock) = Len(last.pre) + last.calls - 1

\* the nodes of kb outside del, in their order
Remaining(kb, del) ==
    LET keep == (1..Len(kb)) \ del
        pos(k) == CHOOSE i \in keep : Cardinality({j \in keep : j <= i}) = k
    IN [k \in 1..Cardinality(keep) |-> kb[pos(k)]]

\* the uids of kb that satisfy hit, with the signatures between each of them
\* and the next uid or subkey
UidGroupsOf(kb, hit(_)) ==
    {i \in 1..Len(kb) :
        \/ kb[i].pkttype = "USER_ID" /\ hit(kb[i])
        \/ /\ kb[i].pkttype = "SIGNATURE"
           /\ \E u \in 1..(i - 1) :
                /\ kb[u].pkttype = "USER_ID" /\ hit(kb[u])
                /\ \A j \in (u + 1)..i : kb[j].pkttype # "USER_ID" /\ ~IsSubkey(kb[j])}

\* C22: what deluid removes.  A deluid that runs removes from the public
\* keyblock exactly the uids that carry SELUID and the signatures between each
\* of them and the next uid or subkey, and from the secret keyblock exactly
\* the uid groups whose name equals that of a selected public uid; every
\* other node of both keyblocks stays, in its order and with its flags, and
\* no node marked deleted is left.  A deluid that is refused or declined
\* changes neither keyblock.
C22_DeluidFrame ==
    [][last'.cmd = "deluid" =>
        LET selected(n) == "SELUID" \in n.flag
            named(n) == \E u \in 1..Len(keyblock) :
                           /\ keyblock[u].pkttype = "USER_ID" /\ selected(keyblock[u])
                           /\ keyblock[u].name = n.name
        IN IF last'.ret = 1
           THEN /\ keyblock' = Remaining(keyblock, UidGroupsOf(keyblock, selected))
                /\ sec_keyblock' = Remaining(sec_keyblock, UidGroupsOf(sec_keyblock, named))
           ELSE UNCHANGED <<keyblock, sec_keyblock>>
    ]_vars

C22_Witness ==
    /\ last.cmd = "deluid" /\ last.ret = 1
    /\ last.uids = 2 /\ last.sel = {2}
    /\ count_uids(keyblock) = 1
    /\ count_subkeys(keyblock) = 1
    /\ keyblock[Len(keyblock)] = BindingSig(PrimaryKeyId)
    /\ sec_keyblock # <<>>
    /\ count_uids(sec_keyblock) = 1
    /\ sec_keyblock[Len(sec_keyblock)] = BindingSig(PrimaryKeyId)

\* kb with the nodes ns put in before its first subkey, at the end when it
\* has none
BeforeFirstSubkey(kb, ns) ==
    LET S == {i \in 1..Len(kb) : IsSubkey(kb[i])}
        p == IF S = {} THEN Len(kb) + 1 ELSE CHOOSE i \in S : \A j \in S : i <= j
    IN SubSeq(kb, 1, p - 1) \o ns \o SubSeq(kb, p, Len(kb))

\* C23: where adduid puts the uid.  An adduid that adds puts into each of
\* the two keyblocks the new uid directly followed by its class 0x13
\* self-signature by the primary key, immediately before the first subkey of
\* that keyblock or at its end when it has no subkey, every node that was
\* there keeping its place among the others; when the signature cannot be
\* made (or no name is given) adduid reports 'not added' and changes neither
\* keyblock.
C23_AdduidPlacement ==
    [][last'.cmd = "adduid" =>
        LET new == <<UserId(last'.name), Signature(PrimaryKeyId, CLASS_SELF)>>
        IN /\ last'.ret = 1 <=> (last'.name # "" /\ last'.rc = 0)
           /\ IF last'.ret = 1
              THEN /\ keyblock' = BeforeFirstSubkey(keyblock, new)
                   /\ sec_keyblock' = BeforeFirstSubkey(sec_keyblock, new)
              ELSE UNCHANGED <<keyblock, sec_keyblock, modified, sec_modified>>
    ]_vars

C23_Witness ==
    /\ last.cmd = "adduid" /\ last.ret = 1
    /\ count_uids(keyblock) = 2
    /\ \E i \in 1..(Len(keyblock) - 2) :
         /\ keyblock[i] = UserId(last.name)
         /\ keyblock[i + 1] = Signature(PrimaryKeyId, CLASS_SELF)
         /\ keyblock[i + 2].pkttype = "PUBLIC_SUBKEY"
    /\ \E i \in 1..(Len(sec_keyblock) - 2) :
         /\ sec_keyblock[i] = UserId(last.name)
         /\ sec_keyblock[i + 1] = Signature(PrimaryKeyId, CLASS_SELF)
         /\ sec_keyblock[i + 2].pkttype = "SECRET_SUBKEY"

\* the position of the uid the node at position i of kb is under, 0 when no
\* uid comes before it
UidAbove(kb, i) ==
    LET S == {u \in 1..(i - 1) : kb[u].pkttype = "USER_ID"}
    IN IF S = {} THEN 0 ELSE CHOOSE u \in S : \A v \in S : v <= u

\* the signatures check is to verify: those of class 0x10..0x13 under a
\* visited uid (a selected one, or any when none is selected)
ToCheck(kb) ==
    {i \in 1..Len(kb) :
        /\ kb[i].pkttype = "SIGNATURE"
        /\ kb[i].sig_class \in 16..19
        /\ count_selected_uids(kb) # 0 =>
             UidAbove(kb, i) # 0 /\ "SELUID" \in kb[UidAbove(kb, i)].flag}

\* the error flag that stands for a verification result
FlagOf(rc) ==
    CASE rc = "ok" -> {}
      [] rc = "bad_sign" -> {"BADSIG"}
      [] rc = "no_pubkey" -> {"NOKEY"}
      [] OTHER -> {"SIGERR"}

\* C24: what check does to a signature.  check verifies exactly the
\* signatures of class 0x10..0x13 under a visited uid; each of them gets
\* exactly the error flag of its verification result (none of the three for
\* ok) and adds one to exactly the counter of that result; check returns true
\* iff one of its four counters is not zero; every other node, a signature of
\* another class or under an unselected uid among them, keeps its flags, and
\* no packet changes.
C24_CheckFlagsAndCounters ==
    [][last'.cmd = "check" =>
        LET l == last'
            todo == ToCheck(keyblock)
            n(rcs) == Cardinality({i \in todo : l.res[i] \in rcs})
        IN /\ l.checked = todo
           /\ Pkts(keyblock') = Pkts(keyblock)
           /\ \A i \in todo : keyblock'[i].flag \cap SigFlags = FlagOf(l.res[i])
           /\ \A i \in (1..Len(keyblock)) \ todo : keyblock'[i] = keyblock[i]
           /\ l.inv_sigs = n({"bad_sign"})
           /\ l.no_key = n({"no_pubkey"})
           /\ l.oth_err = n(Results \ {"ok", "bad_sign", "no_pubkey"})
           /\ l.ret <=> (l.inv_sigs # 0 \/ l.no_key # 0 \/ l.oth_err # 0
                         \/ l.mis_selfsig # 0)
    ]_vars

C24_Witness ==
    /\ last.cmd = "check" /\ last.ret
    /\ count_uids(keyblock) = 2 /\ count_selected_uids(keyblock) = 1
    /\ Cardinality(last.checked) = 2
    /\ last.no_key = 1 /\ last.inv_sigs = 0 /\ last.oth_err = 0
    /\ \E i \in last.checked : last.res[i] = "no_pubkey" /\ keyblock[i].flag = {"NOKEY"}
    /\ \E i \in last.checked : last.res[i] = "ok" /\ keyblock[i].flag = {}
    /\ \E i \in (1..Len(keyblock)) \ last.checked : "BADSIG" \in keyblock[i].flag

Unprotected(kb) == {kb[i].keyid : i \in {j \in SecretKeys(kb) : ~kb[j].protect.is_protected}}

\* C25: save writes no key in the clear that was not meant to be.  A secret
\* keyblock that save writes to the store holds a secret key in unprotected
\* form only if that key was unprotected when loaded (the store holds the
\* loaded keyblock until the one write of the session) or passwd reported
\* 'changed' for a confirmed empty passphrase: after a passwd that reported
\* 'not changed', a command that sets sec_modified and a save, the written
\* keys are protected as they were when loaded.
C25_SavedKeysProtected ==
    [][sec_store' # sec_store =>
        (emptied \/ Unprotected(sec_store') \subseteq Unprotected(sec_store))]_vars

\* the subkeys of kb that satisfy hit, with the signatures directly after
\* each of them
KeyGroupsOf(kb, hit(_)) ==
    {i \in 1..Len(kb) :
        \/ IsSubkey(kb[i]) /\ hit(kb[i])
        \/ /\ kb[i].pkttype = "SIGNATURE"
           /\ \E u \in 1..(i - 1) :
                /\ IsSubkey(kb[u]) /\ hit(kb[u])
                /\ \A j \in (u + 1)..i : kb[j].pkttype = "SIGNATURE"}

\* new is kb less some of the nodes at the positions allowed
LostOnly(kb, new, allowed) == \E D \in SUBSET allowed : new = Remaining(kb, D)

\* C26: the public selection decides.  uid N and key N change flags of the
\* keyblock in view only: in the secret view, SELUID and SELKEY of the secret
\* keyblock and nothing of the public one.  deluid and delkey delete a uid or
\* subkey only if it is selected in the public keyblock, or is the secret
\* one that matches (by name, by key id) one selected there, and delete
\* nothing when nothing is selected in the public keyblock; sign signs only
\* uids that the public selection names, and sign and check leave the secret
\* keyblock alone, whatever is selected in it.
C26_PublicSelectionDecides ==
    [][LET l == last'
           seluid(n) == "SELUID" \in n.flag
           selkey(n) == "SELKEY" \in n.flag
           named(n) == \E u \in 1..Len(keyblock) :
                          /\ keyblock[u].pkttype = "USER_ID" /\ seluid(keyblock[u])
                          /\ keyblock[u].name = n.name
           keyed(n) == \E u \in 1..Len(keyblock) :
                          /\ IsSubkey(keyblock[u]) /\ selkey(keyblock[u])
                          /\ keyblock[u].keyid = n.keyid
       IN CASE l.cmd \in {"uid", "key"} ->
                 IF toggle
                 THEN /\ keyblock' = keyblock
                      /\ Len(sec_keyblock') = Len(sec_keyblock)
                      /\ \A i \in 1..Len(sec_keyblock) :
                           /\ Pkt(sec_keyblock'[i]) = Pkt(sec_keyblock[i])
                           /\ sec_keyblock'[i].flag \ {"SELUID", "SELKEY"}
                                = sec_keyblock[i].flag \ {"SELUID", "SELKEY"}
                 ELSE sec_keyblock' = sec_keyblock
            [] l.cmd = "deluid" ->
                 /\ LostOnly(keyblock, keyblock', UidGroupsOf(keyblock, seluid))
                 /\ LostOnly(sec_keyblock, sec_keyblock', UidGroupsOf(sec_keyblock, named))
                 /\ count_selected_uids(keyblock) = 0 =>
                       UNCHANGED <<keyblock, sec_keyblock>>
            [] l.cmd = "delkey" ->
                 /\ LostOnly(keyblock, keyblock', KeyGroupsOf(keyblock, selkey))
                 /\ LostOnly(sec_keyblock, sec_keyblock', KeyGroupsOf(sec_keyblock, keyed))
                 /\ count_selected_keys(keyblock) = 0 =>
                       UNCHANGED <<keyblock, sec_keyblock>>
            [] l.cmd = "sign" ->
                 /\ sec_keyblock' = sec_keyblock
                 /\ count_uids(keyblock') = count_uids(keyblock)
                 /\ \A n \in 1..count_uids(keyblock) :
                       Cardinality(GroupOf(keyblock', UidPos(keyblock', n)))
                         > Cardinality(GroupOf(keyblock, UidPos(keyblock, n)))
                       => n \in SignTargets(keyblock)
            [] l.cmd = "check" ->
                 /\ sec_keyblock' = sec_keyblock
                 /\ l.checked = ToCheck(keyblock)
            [] OTHER -> TRUE
    ]_vars

C26_Witness ==
    /\ last.cmd = "deluid" /\ last.ret = 1
    /\ last.uids = 2 /\ last.sel = {2}
    /\ count_uids(keyblock) = 1
    /\ count_uids(sec_keyblock) = 1
    /\ count_selected_uids(sec_keyblock) = 1
    /\ count_selected_keys(sec_keyblock) = 1
    /\ count_selected_keys(keyblock) = 0

\* C27: the signing loop is bounded.  For a signer that goes into the
\* signing loop with k uids marked, every scan that finds a marked uid clears
\* the mark of that one uid and either inserts one signature and restarts or
\* leaves sign on a failure: make_keysig_packet is called at most k times,
\* at most k signatures are inserted, the marked uids left are k less the
\* calls made, and when no call failed all k signatures are inserted and no
\* uid is marked.  (Summed over its signers, for a sign with several.)
C27_SignLoopBounded ==
    last.cmd = "sign" =>
        LET pre == last.pre
            entered == {j \in 1..Len(last.log) : last.log[j] \in {"signed", "failed"}}
            k == [j \in entered |-> Cardinality(ToSign(pre, last.sk_list[j]))]
            total == SumOver(entered, k)
            inserted == Len(keyblock) - Len(pre)
        IN /\ \A j \in entered : last.answers[j] /\ k[j] > 0
           /\ last.calls <= total
           /\ inserted <= total
           /\ inserted = last.calls - Cardinality({j \in entered : last.log[j] = "failed"})
           /\ (\A j \in entered : last.log[j] # "failed") => inserted = total
           /\ (Len(last.log) \in entered) =>
                 count_uids_with_flag(keyblock, "MARK_A") = total - last.calls

C27_Witness ==
    /\ last.cmd = "sign" /\ last.rc = 0
    /\ Len(last.sk_list) = 1 /\ last.log = <<"signed">>
    /\ Cardinality(ToSign(last.pre, last.sk_list[1])) = 2
    /\ last.calls = 2
    /\ Len(keyblock) = Len(last.pre) + 2
    /\ count_uids_with_flag(keyblock, "MARK_A") = 0

====
